---- MODULE Spec2Model ----
(***************************************************************************)
(* Verification model of the voice-agent latency analysis engine           *)
(* (tools/latency/analyze_recordings.py); the orchestrator, the agent      *)
(* worker and the load tester are modelled in the last three sections.     *)
(*                                                                         *)
(* A recording is a two-channel AudioSegment.  Each channel is modelled    *)
(* as a piecewise-constant energy trace: a sequence of non-overlapping     *)
(* bursts [start, end) in milliseconds, each with a level (dBFS, rms and   *)
(* peak amplitude of 16-bit samples); outside the bursts the channel is    *)
(* digital silence (rms 0, peak 0, dBFS = -infinity).                      *)
(*                                                                         *)
(* Numbers: times are integer milliseconds.  A confidence is an exact      *)
(* rational [num, den] with den > 0.  A quality score is a fixed-point     *)
(* number in millionths (QualityOne = 1.0), rounded down.                  *)
(***************************************************************************)
EXTENDS Integers, Sequences, FiniteSets, TLC

VARIABLES
    recording,     \* the recording under analysis: sid, call_sid, date_created (hour of day)
    analyzer,      \* EnhancedAudioAnalyzer: thresh_db, min_speech_duration, max_response_window
    stereo,        \* the AudioSegment under analysis: channels, len, left (caller), right (agent)
    i,             \* detect_speech_onsets: caller-side scan position (ms)
    pairs,         \* detect_speech_onsets: the list of pairs built so far
    examined,      \* history: the scan position the last loop iteration examined
    outcome,       \* history: the branch the last loop iteration took
    pc,            \* position of the engine: "scan", "done", "report", "reported",
                   \* "idle", "fetch", "push", "returned", "crashed"
    measurements,  \* LatencyAnalysisEngine.measurements (the Measurement Store)
    report,        \* the last report returned by generate_report
    recordings,    \* run_analysis: the list returned by get_recent_recordings
    idx,           \* run_analysis: position in recordings of the recording being analysed
    all_measurements, \* run_analysis: the local list the run extends
    returned,      \* the value run_analysis returned
    attempted,     \* history: sids analyze_recording was called with in this run
    run,           \* history: number of run_analysis calls made on the engine
    listing_failed, \* history: the recordings stream raised during this run's listing
    pushed,        \* history: what the push to the metrics gateway did in this run
    legacy,        \* detect_onsets: phase, thresh_db, the pairs of the Turn Matcher
                   \* kept for comparison, and the list detect_onsets returned
    room_stats,    \* orchestrator: room name -> start_time, last_seen, identities
    queue,         \* the Redis list "rooms": lpush adds at the head, brpop takes the tail
    now,           \* orchestrator: time.time() in seconds
    orch_last,     \* history: the last orchestrator request, its answer, the state before it
    tasks,         \* agent worker: the handle_call tasks created, by task number
    active_pipelines, \* agent worker: OptimizedAgent.active_pipelines, room -> pipeline
    pipelines,     \* agent worker: the Pipeline objects created: state, ctx and history
    metrics,       \* agent worker: ACTIVE_CALLS, TURN_RTT, TURNS, PROCESSING_TIME, CONNECTION_ERRORS
    clock_ms,      \* agent worker: int(time.time() * 1000)
    attempt,       \* simulate_call: the loop variable of the dispatch loop
    retry_delay,   \* simulate_call: seconds to wait before the next attempt
    call,          \* simulate_call: position, CallResult, and whether active_calls has the call
    responses,     \* history: what each POST /manual/dispatch of the call answered
    waits          \* history: the sleeps between the attempts, in seconds

runvars == <<recordings, idx, all_measurements, returned, attempted, run, listing_failed, pushed>>

orchvars == <<room_stats, queue, now, orch_last>>

agentvars == <<tasks, active_pipelines, pipelines, metrics, clock_ms>>

loadvars == <<attempt, retry_delay, call, responses, waits>>

svcvars == <<orchvars, agentvars, loadvars>>

enginevars == <<recording, analyzer, stereo, i, pairs, examined, outcome, pc, measurements, report,
                recordings, idx, all_measurements, returned, attempted, run, listing_failed, pushed,
                legacy>>

vars == <<recording, analyzer, stereo, i, pairs, examined, outcome, pc, measurements, report,
          recordings, idx, all_measurements, returned, attempted, run, listing_failed, pushed,
          legacy, room_stats, queue, now, orch_last, tasks, active_pipelines, pipelines,
          metrics, clock_ms, attempt, retry_delay, call, responses, waits>>

(***************************************************************************)
(* Program constants                                                       *)
(***************************************************************************)
step == 10

PairedSkip == 1000

NoResponseSkip == 500

QualitySampleMs == 1000

DynamicRangeNorm == 1000

MinRttMs == 50

MaxRttMs == 5000

LatencyTargetMs == 600

\* The value 1.0 of a quality score, in millionths.
QualityOne == 1000000

\* Full scale of a 16-bit sample: no rms or peak exceeds it.
MaxPossibleAmplitude == 32768

(***************************************************************************)
(* Bounds of the model                                                     *)
(***************************************************************************)
MaxCallerBursts == 2

MaxAgentBursts == 2

(***************************************************************************)
(* Arithmetic helpers                                                      *)
(***************************************************************************)
Min(a, b) == IF a <= b THEN a ELSE b

Max(a, b) == IF a >= b THEN a ELSE b

SetMin(S) == CHOOSE x \in S : \A y \in S : x <= y

\* Python's range(a, b, s) for s > 0, as a set.
Range(a, b, s) == IF b <= a THEN {} ELSE {a + s * n : n \in 0 .. ((b - a - 1) \div s)}

RECURSIVE ISqrtIn(_, _, _)
\* The largest r in lo..hi with r * r <= n (lo * lo <= n is assumed).
ISqrtIn(n, lo, hi) ==
    IF lo >= hi THEN lo
    ELSE LET mid == (lo + hi + 1) \div 2
         IN  IF mid * mid <= n THEN ISqrtIn(n, mid, hi) ELSE ISqrtIn(n, lo, mid - 1)

ISqrt(n) == ISqrtIn(n, 0, MaxPossibleAmplitude)

\* Exact rationals [num, den], den > 0.
RatLess(p, q) == p.num * q.den < q.num * p.den

RatZero == [num |-> 0, den |-> 1]

RatOne == [num |-> 1, den |-> 1]

(***************************************************************************)
(* Audio levels: nominal dBFS with the rms and peak of a sine of that      *)
(* level in 16-bit samples (rms = 32768 * 10^(dBFS/20), peak = rms * 1.414)*)
(***************************************************************************)
LevelMinus18 == [dBFS |-> -18, rms |-> 4125, max |-> 5834]

LevelMinus20 == [dBFS |-> -20, rms |-> 3277, max |-> 4634]

LevelMinus25 == [dBFS |-> -25, rms |-> 1843, max |-> 2606]

LevelMinus30 == [dBFS |-> -30, rms |-> 1036, max |-> 1465]

(***************************************************************************)
(* pydub AudioSegment, as far as the analyzer uses it                      *)
(***************************************************************************)
\* The bursts of channel ch that cover the window starting at k.
Covering(ch, k) == {b \in 1 .. Len(ch) : ch[b].start <= k /\ k < ch[b].end}

\* Mutant: a window at the threshold counts as speech.
WindowAtLeast(ch, k, thresh) == \E b \in Covering(ch, k) : ch[b].level.dBFS >= thresh

\* channel[k:k+step].dBFS > thresh; the dBFS of silence is -infinity.
WindowAbove(ch, k, thresh) == \E b \in Covering(ch, k) : ch[b].level.dBFS > thresh

\* channel[k:k+step].dBFS of a window that is not silent.
WindowDb(ch, k) == ch[CHOOSE b \in Covering(ch, k) : TRUE].level.dBFS

\* Milliseconds of burst b inside [lo, hi).
Overlap(b, lo, hi) == Max(0, Min(hi, b.end) - Max(lo, b.start))

RECURSIVE SumSquaresQuot(_, _, _, _)
\* Exact quotient part of (sum over bursts of overlap * rms^2) / (hi - lo).
SumSquaresQuot(ch, n, lo, hi) ==
    IF n = 0 THEN 0
    ELSE LET sq == ch[n].level.rms * ch[n].level.rms
             ov == Overlap(ch[n], lo, hi)
             t  == hi - lo
         IN  ((sq \div t) * ov) + (((sq % t) * ov) \div t) + SumSquaresQuot(ch, n - 1, lo, hi)

RECURSIVE SumSquaresRem(_, _, _, _)
\* The remainders left by SumSquaresQuot, still to be divided by hi - lo.
SumSquaresRem(ch, n, lo, hi) ==
    IF n = 0 THEN 0
    ELSE LET sq == ch[n].level.rms * ch[n].level.rms
             ov == Overlap(ch[n], lo, hi)
             t  == hi - lo
         IN  (((sq % t) * ov) % t) + SumSquaresRem(ch, n - 1, lo, hi)

\* channel[lo:hi].rms : the integer part of the root of the mean square.
SegmentRms(ch, lo, hi) ==
    ISqrt(SumSquaresQuot(ch, Len(ch), lo, hi) + (SumSquaresRem(ch, Len(ch), lo, hi) \div (hi - lo)))

RECURSIVE SegmentMaxIn(_, _, _, _)
SegmentMaxIn(ch, n, lo, hi) ==
    IF n = 0 THEN 0
    ELSE Max(IF Overlap(ch[n], lo, hi) > 0 THEN ch[n].level.max ELSE 0,
             SegmentMaxIn(ch, n - 1, lo, hi))

\* channel[lo:hi].max : the peak amplitude.
SegmentMax(ch, lo, hi) == SegmentMaxIn(ch, Len(ch), lo, hi)

\* channel[from:from+1000], clipped to the channel, as the analyzer samples it.
Segment(ch, from) ==
    LET hi == Min(stereo.len, from + QualitySampleMs)
    IN  [rms |-> SegmentRms(ch, from, hi), max |-> SegmentMax(ch, from, hi)]

(***************************************************************************)
(* EnhancedAudioAnalyzer                                                   *)
(***************************************************************************)
\* Mutant: the dynamic range is returned as it is, neither normalised nor clamped.
QualityNotNormalised(segment) ==
    IF segment.max = 0 THEN 0
    ELSE ((segment.max * DynamicRangeNorm) \div (segment.rms + 1)) * (QualityOne \div DynamicRangeNorm)

\* min(1.0, (dynamic_range) / 1000.0) with dynamic_range = max / (rms + 1)
calculate_audio_quality_score(segment) ==
    IF segment.max = 0 THEN 0
    ELSE Min(QualityOne, (segment.max * (QualityOne \div DynamicRangeNorm)) \div (segment.rms + 1))

\* The sustained-speech count of both loops: step for every window of
\* [from, from + min_speech_duration) inside the channel that is above thresh.
SustainedDuration(ch, from) ==
    step * Cardinality({j \in Range(from, Min(stereo.len, from + analyzer.min_speech_duration), step) :
                            WindowAbove(ch, j, analyzer.thresh_db)})

UserSpeech(k) == WindowAbove(stereo.left, k, analyzer.thresh_db)

\* Mutant: the sustained check is strict, so a burst of exactly min_speech_duration fails.
UserSustainedStrict(k) == SustainedDuration(stereo.left, k) > analyzer.min_speech_duration

\* Mutant: one window of the sustained check may be below the threshold.
UserSustainedForgiving(k) ==
    SustainedDuration(stereo.left, k) >= analyzer.min_speech_duration - step

UserSustained(k) == SustainedDuration(stereo.left, k) >= analyzer.min_speech_duration

\* Mutant: the agent search starts at the caller onset.
SearchStartAtOnset(k) == k

search_start(k) == k + analyzer.min_speech_duration

\* Mutant: the search window is bounded by min_speech_duration, not max_response_window.
SearchEndWrongField(k) == Min(stereo.len, k + analyzer.min_speech_duration)

\* Mutant: the window at k + max_response_window is searched too.
SearchEndInclusive(k) == Min(stereo.len, k + analyzer.max_response_window + step)

search_end(k) == Min(stereo.len, k + analyzer.max_response_window)

\* Mutant: an agent window above the threshold is accepted without the sustained check.
AgentUnverified(k) == WindowAbove(stereo.right, k, analyzer.thresh_db)

\* An agent window that exceeds the threshold and passes the sustained check.
AgentVerified(k) ==
    /\ WindowAbove(stereo.right, k, analyzer.thresh_db)
    /\ SustainedDuration(stereo.right, k) >= analyzer.min_speech_duration

\* Mutant: max instead of min.
ConfidenceMax(dBFS) ==
    LET raw == [num |-> dBFS - analyzer.thresh_db, den |-> -analyzer.thresh_db]
    IN  IF RatLess(raw, RatOne) THEN RatOne ELSE raw

\* min(1.0, (agent_window.dBFS - thresh_db) / -thresh_db), for thresh_db # 0
Confidence(dBFS) ==
    LET raw == IF analyzer.thresh_db < 0
               THEN [num |-> dBFS - analyzer.thresh_db, den |-> -analyzer.thresh_db]
               ELSE [num |-> analyzer.thresh_db - dBFS, den |-> analyzer.thresh_db]
    IN  IF RatLess(RatOne, raw) THEN RatOne ELSE raw

\* Mutant: the loop breaks only at a verified window the retention filter
\* would keep (confidence > 0.3).
AgentSearchRetained(k) ==
    LET kept == {a \in Range(search_start(k), search_end(k), step) :
                    /\ AgentVerified(a)
                    /\ RatLess([num |-> 3, den |-> 10], Confidence(WindowDb(stereo.right, a)))}
    IN  IF kept = {} THEN [found |-> FALSE, agent_response |-> 0, best_confidence |-> RatZero]
        ELSE [found |-> TRUE, agent_response |-> SetMin(kept),
              best_confidence |-> Confidence(WindowDb(stereo.right, SetMin(kept)))]

\* Mutant: the loop has no break and keeps the verified window of the highest
\* confidence, the first of them if several have it.
AgentSearchLoudest(k) ==
    LET verified == {a \in Range(search_start(k), search_end(k), step) : AgentVerified(a)}
    IN  IF verified = {} THEN [found |-> FALSE, agent_response |-> 0, best_confidence |-> RatZero]
        ELSE LET loudest == CHOOSE a \in verified : \A b \in verified :
                                \/ WindowDb(stereo.right, a) > WindowDb(stereo.right, b)
                                \/ WindowDb(stereo.right, a) = WindowDb(stereo.right, b) /\ a <= b
             IN  [found |-> TRUE, agent_response |-> loudest,
                  best_confidence |-> Confidence(WindowDb(stereo.right, loudest))]

\* The for-loop over the agent channel: it stops (break) at the first verified
\* window; agent_response is set only if its confidence beats best_confidence = 0.
AgentSearch(k) ==
    LET verified == {a \in Range(search_start(k), search_end(k), step) : AgentVerified(a)}
    IN  IF verified = {} THEN [found |-> FALSE, agent_response |-> 0, best_confidence |-> RatZero]
        ELSE LET first == SetMin(verified)
                 confidence == Confidence(WindowDb(stereo.right, first))
             IN  IF RatLess(RatZero, confidence)
                 THEN [found |-> TRUE, agent_response |-> first, best_confidence |-> confidence]
                 ELSE [found |-> FALSE, agent_response |-> 0, best_confidence |-> RatZero]

AvgQuality(user_onset, agent_response) ==
    (calculate_audio_quality_score(Segment(stereo.left, user_onset))
     + calculate_audio_quality_score(Segment(stereo.right, agent_response))) \div 2

\* Mutant: the scan resumes at the agent onset itself.
SkipAfterPairNone(agent_response) == agent_response

\* Mutant: the skip after a pairing is the 500 ms of the no-response branch.
SkipAfterPairShort(agent_response) == agent_response + NoResponseSkip

\* i = agent_response + 1000
SkipAfterPair(agent_response) == agent_response + PairedSkip

\* Mutant: the scan retries at the next window.
SkipAfterNoResponseRetry(k) == k + step

\* i += 500
SkipAfterNoResponse(k) == k + NoResponseSkip

(***************************************************************************)
(* detect_speech_onsets: one action per branch of one iteration of the     *)
(* caller loop "while i < len(left)"                                       *)
(***************************************************************************)
\* Mutant: the scan position is not advanced.
StepAheadStuck(k) == k

\* Mutant: the scan advances by two windows.
StepAheadTwo(k) == k + (2 * step)

\* i += step
StepAhead(k) == k + step

\* Mutant: a recording of any channel count is scanned.
AnyChannelCount(audio) == TRUE

\* audio.channels != 2 : detect_speech_onsets returns [] before the loop
IsStereo(audio) == audio.channels = 2

Scanning == pc = "scan" /\ IsStereo(stereo) /\ i < stereo.len

\* user_window.dBFS <= thresh_db : i += step
ScanBelow ==
    /\ Scanning
    /\ ~UserSpeech(i)
    /\ i' = StepAhead(i)
    /\ examined' = i
    /\ outcome' = "below"
    /\ UNCHANGED <<recording, analyzer, stereo, pairs, pc, measurements, report>>
    /\ UNCHANGED runvars
    /\ UNCHANGED legacy
    /\ UNCHANGED svcvars

\* above the threshold but sustained_duration < min_speech_duration : i += step
ScanUnsustained ==
    /\ Scanning
    /\ UserSpeech(i)
    /\ ~UserSustained(i)
    /\ i' = StepAhead(i)
    /\ examined' = i
    /\ outcome' = "unsustained"
    /\ UNCHANGED <<recording, analyzer, stereo, pairs, pc, measurements, report>>
    /\ UNCHANGED runvars
    /\ UNCHANGED legacy
    /\ UNCHANGED svcvars

\* a validated caller onset with an agent response: append the pair, skip ahead
ScanPaired ==
    /\ Scanning
    /\ UserSpeech(i)
    /\ UserSustained(i)
    /\ LET s == AgentSearch(i)
       IN  /\ s.found
           /\ pairs' = Append(pairs, [user_onset |-> i,
                                      agent_response |-> s.agent_response,
                                      confidence |-> s.best_confidence,
                                      quality |-> AvgQuality(i, s.agent_response)])
           /\ i' = SkipAfterPair(s.agent_response)
    /\ examined' = i
    /\ outcome' = "paired"
    /\ UNCHANGED <<recording, analyzer, stereo, pc, measurements, report>>
    /\ UNCHANGED runvars
    /\ UNCHANGED legacy
    /\ UNCHANGED svcvars

\* a validated caller onset without an agent response: i += 500
ScanNoResponse ==
    /\ Scanning
    /\ UserSpeech(i)
    /\ UserSustained(i)
    /\ ~AgentSearch(i).found
    /\ i' = SkipAfterNoResponse(i)
    /\ examined' = i
    /\ outcome' = "noresponse"
    /\ UNCHANGED <<recording, analyzer, stereo, pairs, pc, measurements, report>>
    /\ UNCHANGED runvars
    /\ UNCHANGED legacy
    /\ UNCHANGED svcvars

(***************************************************************************)
(* LatencyAnalysisEngine.analyze_recording: the filter over the returned   *)
(* pairs                                                                   *)
(***************************************************************************)
\* Mutant: the round-trip time forgets to subtract the caller onset.
RttNotSubtracted(user_onset, agent_response) == agent_response

RttOf(user_onset, agent_response) == agent_response - user_onset

\* Mutant: the filter forgets the confidence bound.
RealisticRttOnly(rtt_ms, confidence) == MinRttMs <= rtt_ms /\ rtt_ms <= MaxRttMs

\* 50 <= rtt_ms <= 5000 and confidence > 0.3
Realistic(rtt_ms, confidence) ==
    /\ MinRttMs <= rtt_ms
    /\ rtt_ms <= MaxRttMs
    /\ RatLess([num |-> 3, den |-> 10], confidence)

MeasurementOf(p) ==
    [recording_sid |-> recording.sid,
     call_sid |-> recording.call_sid,
     timestamp |-> recording.date_created,
     user_onset_ms |-> p.user_onset,
     agent_response_ms |-> p.agent_response,
     rtt_ms |-> RttOf(p.user_onset, p.agent_response),
     confidence_score |-> p.confidence,
     audio_quality_score |-> p.quality]

RECURSIVE FilterPairs(_)
FilterPairs(ps) ==
    IF ps = <<>> THEN <<>>
    ELSE LET p == Head(ps)
             rest == FilterPairs(Tail(ps))
         IN  IF Realistic(RttOf(p.user_onset, p.agent_response), p.confidence)
             THEN <<MeasurementOf(p)>> \o rest
             ELSE rest

\* The caller loop has ended: detect_speech_onsets returns pairs and
\* analyze_recording keeps the realistic ones.
AnalyzeRecording ==
    /\ pc = "scan"
    /\ IsStereo(stereo)
    /\ i >= stereo.len
    /\ measurements' = FilterPairs(pairs)
    /\ pc' = "done"
    /\ UNCHANGED <<recording, analyzer, stereo, i, pairs, examined, outcome, report>>
    /\ UNCHANGED runvars
    /\ UNCHANGED legacy
    /\ UNCHANGED svcvars

(***************************************************************************)
(* Inputs                                                                  *)
(***************************************************************************)
DefaultAnalyzer ==
    [thresh_db |-> -30, min_speech_duration |-> 100, max_response_window |-> 3000]

\* An analyzer constructed with its own threshold, duration and window.
TunedAnalyzer ==
    [thresh_db |-> -26, min_speech_duration |-> 40, max_response_window |-> 1000]

Analyzers == {DefaultAnalyzer, TunedAnalyzer}

ChannelLengths == {2000}

CallerStarts == {0, 1200}

CallerKinds ==
    {[dur |-> 50, level |-> LevelMinus20],
     [dur |-> 100, level |-> LevelMinus20],
     [dur |-> 300, level |-> LevelMinus20],
     [dur |-> 300, level |-> LevelMinus30]}

AgentStarts == {40, 100, 800, 1500}

AgentKinds ==
    {[dur |-> 90, level |-> LevelMinus18],
     [dur |-> 400, level |-> LevelMinus18],
     [dur |-> 1300, level |-> LevelMinus18],
     [dur |-> 400, level |-> LevelMinus25]}

Bursts(starts, kinds) ==
    {[start |-> s, end |-> s + kd.dur, level |-> kd.level] : s \in starts, kd \in kinds}

\* The channels of length len with at most n bursts, in time order, not overlapping.
Channels(starts, kinds, n, len) ==
    UNION {{ch \in [1 .. m -> Bursts(starts, kinds)] :
                /\ \A b \in 1 .. m : ch[b].end <= len
                /\ \A b \in 1 .. m - 1 : ch[b].end <= ch[b + 1].start} : m \in 0 .. n}

Recordings ==
    {[channels |-> 2, len |-> len, left |-> l, right |-> r] :
        len \in ChannelLengths,
        l \in UNION {Channels(CallerStarts, CallerKinds, MaxCallerBursts, n) : n \in ChannelLengths},
        r \in UNION {Channels(AgentStarts, AgentKinds, MaxAgentBursts, n) : n \in ChannelLengths}}

NoReport == [status |-> "none"]

\* The orchestrator has answered no request.
NoRequest ==
    [op |-> "startup", room |-> <<>>, ok |-> TRUE, status |-> 200, dispatched |-> FALSE,
     result |-> FALSE, at |-> 0, stats_before |-> <<>>, queue_before |-> <<>>]

NoMetrics ==
    [ACTIVE_CALLS |-> 0, TURN_RTT |-> <<>>, TURNS |-> 0, PROCESSING_TIME |-> <<>>,
     CONNECTION_ERRORS |-> 0]

\* simulate_call has not been entered.
NoCall == [pc |-> "idle", success |-> FALSE, error_message |-> "", active |-> FALSE]

\* The orchestrator, the agent worker and the load tester are not running.
ServicesIdle ==
    /\ room_stats = <<>>
    /\ queue = <<>>
    /\ now = 0
    /\ orch_last = NoRequest
    /\ tasks = <<>>
    /\ active_pipelines = <<>>
    /\ pipelines = <<>>
    /\ metrics = NoMetrics
    /\ clock_ms = 0
    /\ attempt = <<>>
    /\ retry_delay = <<>>
    /\ call = <<>>
    /\ responses = <<>>
    /\ waits = <<>>

\* detect_onsets has not been called.
NoLegacy == [phase |-> "none", thresh_db |-> 0, reference |-> <<>>, result |-> <<>>]

Init ==
    /\ recording = [sid |-> "RE1", call_sid |-> "CA1", date_created |-> 9]
    /\ analyzer \in Analyzers
    /\ stereo \in {s \in Recordings :
                      /\ \A b \in 1 .. Len(s.left) : s.left[b].end <= s.len
                      /\ \A b \in 1 .. Len(s.right) : s.right[b].end <= s.len}
    /\ i = 0
    /\ pairs = <<>>
    /\ examined = 0
    /\ outcome = "start"
    /\ pc = "scan"
    /\ measurements = <<>>
    /\ report = NoReport
    /\ recordings = <<>>
    /\ idx = 0
    /\ all_measurements = <<>>
    /\ returned = NoReport
    /\ attempted = <<>>
    /\ run = 0
    /\ listing_failed = FALSE
    /\ pushed = "none"
    /\ legacy = NoLegacy
    /\ ServicesIdle

Next ==
    \/ ScanBelow
    \/ ScanUnsustained
    \/ ScanPaired
    \/ ScanNoResponse
    \/ AnalyzeRecording

Spec == Init /\ [][Next]_vars

(***************************************************************************)
(* LatencyAnalysisEngine.generate_report                                   *)
(*                                                                         *)
(* Statistics are exact: a percentile is kept in hundredths of a           *)
(* millisecond (p95_x100 = 100 * p95), a mean as its sum and its count.    *)
(***************************************************************************)
Values(vals) == {vals[n] : n \in 1 .. Len(vals)}

Occurrences(vals, v) == Cardinality({n \in 1 .. Len(vals) : vals[n] = v})

RECURSIVE SortedRuns(_, _)
\* The values of the set rest, in increasing order, each as often as in vals.
SortedRuns(vals, rest) ==
    IF rest = {} THEN <<>>
    ELSE LET v == SetMin(rest)
         IN  [n \in 1 .. Occurrences(vals, v) |-> v] \o SortedRuns(vals, rest \ {v})

\* Mutant: the percentiles are read from the series as stored.
Unsorted(vals) == vals

\* The series in increasing order.
Sorted(vals) == SortedRuns(vals, Values(vals))

RECURSIVE SumRuns(_, _)
SumRuns(vals, rest) ==
    IF rest = {} THEN 0
    ELSE LET v == SetMin(rest)
         IN  (v * Occurrences(vals, v)) + SumRuns(vals, rest \ {v})

\* The sum of the series.
Sum(vals) == SumRuns(vals, Values(vals))

\* Mutant: the rank is n * q instead of (n - 1) * q.
PercentilePositionFromOne(n, q) == Min(n * q, (n - 1) * 100)

\* The position, in hundredths of an index from 0, of the q-th percentile of n
\* values: pandas interpolates linearly at (n - 1) * q / 100.
PercentilePosition(n, q) == (n - 1) * q

\* 100 * (the q-th percentile of the sorted values), by linear interpolation
\* between the two order statistics around the position.
Percentile(sorted, q) ==
    LET pos  == PercentilePosition(Len(sorted), q)
        lo   == pos \div 100
        frac == pos % 100
        hi   == Min(lo + 1, Len(sorted) - 1)
    IN  (100 * sorted[lo + 1]) + (frac * (sorted[hi + 1] - sorted[lo + 1]))

\* Series.describe(percentiles=[0.5, 0.95, 0.99]) of a non-empty series
Describe(vals) ==
    LET sorted == Sorted(vals)
    IN  [count |-> Len(vals),
         sum |-> Sum(vals),
         p50_x100 |-> Percentile(sorted, 50),
         p95_x100 |-> Percentile(sorted, 95),
         p99_x100 |-> Percentile(sorted, 99),
         min |-> sorted[1],
         max |-> sorted[Len(sorted)]]

RttsOf(ms) == [n \in 1 .. Len(ms) |-> ms[n].rtt_ms]

HighQuality(m) == m.audio_quality_score * 10 > 7 * QualityOne

HighConfidence(m) == RatLess([num |-> 7, den |-> 10], m.confidence_score)

\* Mutant: the target is met at 600 ms as well.
TargetMetInclusive(p95_x100) == p95_x100 <= 100 * LatencyTargetMs

\* rtt_stats['95%'] < 600
TargetMet(p95_x100) == p95_x100 < 100 * LatencyTargetMs

HourlyStats(ms) ==
    [h \in {ms[n].timestamp : n \in 1 .. Len(ms)} |->
        LET at == SelectSeq(ms, LAMBDA m : m.timestamp = h)
        IN  [sum |-> Sum(RttsOf(at)), count |-> Len(at)]]

ReportBody(ms) ==
    LET rtt_stats == Describe(RttsOf(ms))
        hq == SelectSeq(ms, HighQuality)
        hc == SelectSeq(ms, HighConfidence)
        target_met == TargetMet(rtt_stats.p95_x100)
    IN  [status |-> "ok",
         total_measurements |-> Len(ms),
         total_recordings |->
             Cardinality({ms[n].recording_sid : n \in 1 .. Len(ms)}),
         all_measurements |-> rtt_stats,
         high_quality_only |-> IF hq = <<>> THEN <<>> ELSE <<Describe(RttsOf(hq))>>,
         high_confidence_only |-> IF hc = <<>> THEN <<>> ELSE <<Describe(RttsOf(hc))>>,
         high_quality_count |-> Len(hq),
         high_confidence_count |-> Len(hc),
         target_achieved |-> target_met,
         p95_latency_x100 |-> rtt_stats.p95_x100,
         grade |-> IF target_met THEN "PASS" ELSE "FAIL",
         hourly_patterns |-> HourlyStats(ms)]

\* Mutant: the report is computed without the check for an empty store; the
\* column lookup on an empty DataFrame raises.
ReportForUnguarded(ms) ==
    IF ms = <<>>
    THEN [status |-> "raised", error |-> "KeyError: rtt_ms"]
    ELSE ReportBody(ms)

\* generate_report over a store ms
ReportFor(ms) ==
    IF ms = <<>>
    THEN [status |-> "error", error |-> "No measurements available"]
    ELSE ReportBody(ms)

generate_report == ReportFor(measurements)

\* Mutant: building the report consumes the store.
StoreConsumed(ms) == <<>>

\* generate_report reads self.measurements and never assigns or mutates it
StoreAfterReport(ms) == ms

\* A call of generate_report on the engine's Measurement Store.
GenerateReport ==
    /\ pc = "report"
    /\ report' = generate_report
    /\ measurements' = StoreAfterReport(measurements)
    /\ pc' = "reported"
    /\ UNCHANGED <<recording, analyzer, stereo, i, pairs, examined, outcome>>
    /\ UNCHANGED runvars
    /\ UNCHANGED legacy
    /\ UNCHANGED svcvars

(***************************************************************************)
(* Measurement Stores for the report: body measurements at one latency and *)
(* tail measurements at another, each passing the retention filter         *)
(***************************************************************************)
MaxTail == 6

BodyCounts == {0, 1, 19, 94, 95}

BodyRtts == {100, 599, 600}

TailRtts == {600, 601, 5000}

StoredMeasurement(rtt, sid, hour, confidence, quality) ==
    [recording_sid |-> sid,
     call_sid |-> "CA1",
     timestamp |-> hour,
     user_onset_ms |-> 0,
     agent_response_ms |-> rtt,
     rtt_ms |-> rtt,
     confidence_score |-> confidence,
     audio_quality_score |-> quality]

Store(body, body_rtt, tail, tail_rtt) ==
    [n \in 1 .. body + tail |->
        IF n <= body
        THEN StoredMeasurement(body_rtt, "RE1", 9, [num |-> 12, den |-> 30], 3000)
        ELSE StoredMeasurement(tail_rtt, "RE2", 17, [num |-> 25, den |-> 30], 800000)]

Stores ==
    {Store(body, body_rtt, tail, tail_rtt) :
        body \in BodyCounts, body_rtt \in BodyRtts, tail \in 0 .. MaxTail, tail_rtt \in TailRtts}

MaxSmallStore == 3

SmallMeasurements ==
    {StoredMeasurement(100, "RE1", 9, [num |-> 12, den |-> 30], 3000),
     StoredMeasurement(700, "RE2", 17, [num |-> 25, den |-> 30], 800000),
     StoredMeasurement(599, "RE1", 17, [num |-> 25, den |-> 30], 3000)}

\* The short stores, in every order of their measurements.
SmallStores == UNION {[1 .. m -> SmallMeasurements] : m \in 0 .. MaxSmallStore}

ReportInit ==
    /\ recording = [sid |-> "RE1", call_sid |-> "CA1", date_created |-> 9]
    /\ analyzer = DefaultAnalyzer
    /\ stereo = [channels |-> 2, len |-> 0, left |-> <<>>, right |-> <<>>]
    /\ i = 0
    /\ pairs = <<>>
    /\ examined = 0
    /\ outcome = "start"
    /\ pc = "report"
    /\ measurements \in Stores \cup SmallStores
    /\ report = NoReport
    /\ recordings = <<>>
    /\ idx = 0
    /\ all_measurements = <<>>
    /\ returned = NoReport
    /\ attempted = <<>>
    /\ run = 0
    /\ listing_failed = FALSE
    /\ pushed = "none"
    /\ legacy = NoLegacy
    /\ ServicesIdle

ReportNext == GenerateReport

ReportSpec == ReportInit /\ [][ReportNext]_vars

(***************************************************************************)
(* Properties of the onset scan and of the retention filter                *)
(***************************************************************************)
PairIndexes == DOMAIN pairs

LastPair == pairs[Len(pairs)]

StoreIndexes == DOMAIN measurements

\* All windows from a to b (both window starts) of the agent channel are above
\* the threshold: a and b lie in one continuous agent response.
SameAgentResponse(a, b) ==
    \A k \in Range(a, b + step, step) : WindowAbove(stereo.right, k, analyzer.thresh_db)

\* Channel ch has step * n >= min_speech_duration above-threshold windows, n counted
\* over the windows of [k, k + min_speech_duration) that start inside the channel.
PassesSustainedCheck(ch, k) ==
    /\ \E b \in 1 .. Len(ch) : ch[b].start <= k /\ k < ch[b].end /\ ch[b].level.dBFS > analyzer.thresh_db
    /\ 10 * Cardinality({j \in k .. (k + analyzer.min_speech_duration - 1) :
                            /\ j < stereo.len
                            /\ (j - k) % 10 = 0
                            /\ \E b \in 1 .. Len(ch) :
                                  ch[b].start <= j /\ j < ch[b].end /\ ch[b].level.dBFS > analyzer.thresh_db})
          >= analyzer.min_speech_duration

\* The agent windows searched for a caller onset at t0, as the claim states them.
InSearchWindow(t0, k) ==
    /\ t0 + analyzer.min_speech_duration <= k
    /\ k < stereo.len
    /\ k < t0 + analyzer.max_response_window

\* C1: after every successful pairing (t0, A) the caller-side scan position is
\* exactly A + 1000 ms; no position in [t0, A + 1000) is examined afterwards and
\* every later pair has user_onset >= A + 1000.
C1_SkipAfterPairing ==
    /\ outcome = "paired" =>
          /\ examined = LastPair.user_onset
          /\ i = LastPair.agent_response + 1000
    /\ (pairs # <<>> /\ outcome # "paired") =>
          /\ examined >= LastPair.agent_response + 1000
          /\ i > examined
    /\ \A m \in PairIndexes : \A n \in PairIndexes :
          m < n => pairs[n].user_onset >= pairs[m].agent_response + 1000

\* C1 witness: a second pair was found after the skip that followed the first.
C1_Witness == Len(pairs) >= 2 /\ outcome = "paired"

\* C2: among the pairs of one run, no two agent onsets belong to the same agent
\* response (one continuous run of above-threshold agent windows).
C2_OneResponseOnePair ==
    \A m \in PairIndexes : \A n \in PairIndexes :
        m < n => ~SameAgentResponse(pairs[m].agent_response, pairs[n].agent_response)

\* C3: every stored measurement has 50 <= rtt_ms <= 5000 and confidence > 0.3,
\* and a returned pair failing either bound has no measurement in the store.
C3_RetentionFilter ==
    /\ \A n \in StoreIndexes :
          /\ 50 <= measurements[n].rtt_ms
          /\ measurements[n].rtt_ms <= 5000
          /\ 10 * measurements[n].confidence_score.num > 3 * measurements[n].confidence_score.den
    /\ pc = "done" =>
          \A m \in PairIndexes :
              (\/ pairs[m].agent_response - pairs[m].user_onset < 50
               \/ pairs[m].agent_response - pairs[m].user_onset > 5000
               \/ 10 * pairs[m].confidence.num <= 3 * pairs[m].confidence.den)
              => \A n \in StoreIndexes : measurements[n].user_onset_ms # pairs[m].user_onset

\* C3 witness: a run that stored one pair and discarded another, one for its
\* confidence and (in some run) one for its round-trip time.
C3_Witness ==
    /\ pc = "done"
    /\ measurements # <<>>
    /\ \E m \in PairIndexes : 10 * pairs[m].confidence.num <= 3 * pairs[m].confidence.den
    /\ \E m \in PairIndexes : pairs[m].agent_response - pairs[m].user_onset < 50

\* C4: for every stored measurement rtt_ms = agent_response_ms - user_onset_ms,
\* and rtt_ms is not negative.
C4_RttIsDifference ==
    \A n \in StoreIndexes :
        /\ measurements[n].rtt_ms = measurements[n].agent_response_ms - measurements[n].user_onset_ms
        /\ measurements[n].rtt_ms >= 0

\* C4 witness: a stored measurement whose caller onset is not at the start.
C4_Witness == \E n \in StoreIndexes : measurements[n].user_onset_ms > 0

\* C5: the confidence and the quality of every pair, and of every stored
\* measurement, lie in [0, 1].
C5_ScoresInUnitInterval ==
    /\ \A m \in PairIndexes :
          /\ pairs[m].confidence.den > 0
          /\ 0 <= pairs[m].confidence.num
          /\ pairs[m].confidence.num <= pairs[m].confidence.den
          /\ 0 <= pairs[m].quality
          /\ pairs[m].quality <= 1000000
    /\ \A n \in StoreIndexes :
          /\ measurements[n].confidence_score.den > 0
          /\ 0 <= measurements[n].confidence_score.num
          /\ measurements[n].confidence_score.num <= measurements[n].confidence_score.den
          /\ 0 <= measurements[n].audio_quality_score
          /\ measurements[n].audio_quality_score <= 1000000

\* C5 witness: a stored measurement with both scores strictly inside (0, 1).
C5_Witness ==
    \E n \in StoreIndexes :
        /\ 0 < measurements[n].confidence_score.num
        /\ measurements[n].confidence_score.num < measurements[n].confidence_score.den
        /\ 0 < measurements[n].audio_quality_score
        /\ measurements[n].audio_quality_score < 1000000

\* The clip of the end-to-end scenario: caller at -20 dBFS from 0 to 300 ms, agent
\* at -18 dBFS from 800 to 1200 ms, silence otherwise; threshold -30 dBFS,
\* D_min = 100 ms, W_max = 3000 ms.
C8_Clip ==
    /\ analyzer = [thresh_db |-> -30, min_speech_duration |-> 100, max_response_window |-> 3000]
    /\ stereo.channels = 2
    /\ stereo.left = <<[start |-> 0, end |-> 300, level |-> LevelMinus20]>>
    /\ stereo.right = <<[start |-> 800, end |-> 1200, level |-> LevelMinus18]>>

\* C8: the end-to-end clip yields exactly one stored measurement, with rtt_ms
\* within 20 ms of 800, confidence > 0 and quality > 0.
C8_EndToEnd ==
    (pc = "done" /\ C8_Clip) =>
        /\ Len(measurements) = 1
        /\ 780 <= measurements[1].rtt_ms
        /\ measurements[1].rtt_ms <= 820
        /\ measurements[1].confidence_score.num > 0
        /\ measurements[1].audio_quality_score > 0

\* C8 witness: the analysis of the end-to-end clip has finished.
C8_Witness == pc = "done" /\ C8_Clip /\ measurements # <<>>

\* A signal with one caller burst starting at t0 and one agent burst starting at
\* t1 > t0 + D_min, each above the threshold for at least D_min.
C9_Injected ==
    /\ Len(stereo.left) = 1
    /\ Len(stereo.right) = 1
    /\ stereo.left[1].level.dBFS > analyzer.thresh_db
    /\ stereo.left[1].end - stereo.left[1].start >= analyzer.min_speech_duration
    /\ stereo.right[1].level.dBFS > analyzer.thresh_db
    /\ stereo.right[1].end - stereo.right[1].start >= analyzer.min_speech_duration
    /\ stereo.right[1].start > stereo.left[1].start + analyzer.min_speech_duration

\* Exactly one stored measurement, its onsets within one frame step of t0 and t1.
C9_OneMeasurementAtOnsets ==
    /\ Len(measurements) = 1
    /\ measurements[1].user_onset_ms - stereo.left[1].start \in -10 .. 10
    /\ measurements[1].agent_response_ms - stereo.right[1].start \in -10 .. 10

\* C9 as stated: every such signal gives exactly one measurement at t0 and t1.
C9_Original == (pc = "done" /\ C9_Injected) => C9_OneMeasurementAtOnsets

\* What the statement of C9 leaves out: the agent onset lies inside the search
\* window (t1 < t0 + W_max), the pair passes the retention filter (confidence
\* above 0.3 and 50 <= t1 - t0 <= 5000) and the caller burst has ended when the
\* scan resumes at t1 + 1000.
C9_Retained ==
    /\ stereo.right[1].start < stereo.left[1].start + analyzer.max_response_window
    /\ analyzer.thresh_db < 0
    /\ 10 * (stereo.right[1].level.dBFS - analyzer.thresh_db) > 3 * (-analyzer.thresh_db)
    /\ stereo.right[1].start - stereo.left[1].start >= 50
    /\ stereo.right[1].start - stereo.left[1].start <= 5000
    /\ stereo.left[1].end <= stereo.right[1].start + 1000

\* C9 (amended): a signal with one sustained caller burst at t0 and one sustained
\* agent burst at t1, t0 + D_min < t1 < t0 + W_max, whose pair passes the
\* retention filter, gives exactly one measurement, with user_onset_ms and
\* agent_onset_ms within one frame step of t0 and t1.
C9_Amended == (pc = "done" /\ C9_Injected /\ C9_Retained) => C9_OneMeasurementAtOnsets

\* C9 witness: such a signal has been analysed, with the tuned analyzer.
C9_Witness ==
    /\ pc = "done"
    /\ C9_Injected
    /\ C9_Retained
    /\ analyzer.min_speech_duration # 100
    /\ Len(measurements) = 1

\* C10: a caller onset yields a pair (and a measurement) only if some agent
\* window in [t0 + D_min, min(channel_length, t0 + W_max)) exceeds the threshold
\* and passes the sustained check; an iteration that finds none adds no pair.
C10_NoResponseNoPair ==
    /\ \A m \in PairIndexes :
          /\ InSearchWindow(pairs[m].user_onset, pairs[m].agent_response)
          /\ PassesSustainedCheck(stereo.right, pairs[m].agent_response)
    /\ \A n \in StoreIndexes :
          \E m \in PairIndexes :
              /\ pairs[m].user_onset = measurements[n].user_onset_ms
              /\ pairs[m].agent_response = measurements[n].agent_response_ms
    /\ outcome = "noresponse" =>
          /\ PassesSustainedCheck(stereo.left, examined)
          /\ \A m \in PairIndexes : pairs[m].user_onset # examined
          /\ \A n \in StoreIndexes : measurements[n].user_onset_ms # examined
    /\ (outcome \in {"paired", "noresponse"} /\
        \A k \in 0 .. stereo.len : InSearchWindow(examined, k) /\ (k - examined) % 10 = 0
                                      => ~PassesSustainedCheck(stereo.right, k))
          => outcome = "noresponse"

\* C10 witness: a run over a recording whose agent channel is not silent and
\* whose caller channel has a sustained onset ended with no pair and no measurement.
C10_Witness ==
    /\ pc = "done"
    /\ pairs = <<>>
    /\ measurements = <<>>
    /\ stereo.right # <<>>
    /\ \E b \in 1 .. Len(stereo.left) : PassesSustainedCheck(stereo.left, stereo.left[b].start)

(***************************************************************************)
(* Properties of the report                                                *)
(***************************************************************************)
\* The number of stored measurements with rtt_ms < v, and with rtt_ms <= v.
CountBelow(v) == Cardinality({n \in StoreIndexes : measurements[n].rtt_ms < v})

CountUpTo(v) == Cardinality({n \in StoreIndexes : measurements[n].rtt_ms <= v})

\* The k-th smallest rtt_ms of the store, k in 1 .. Len(measurements).
OrderStatistic(k) ==
    CHOOSE v \in {measurements[n].rtt_ms : n \in StoreIndexes} : CountBelow(v) < k /\ k <= CountUpTo(v)

\* 100 * the 95th percentile of the store's rtt_ms: at rank 1 + 0.95 * (n - 1),
\* interpolated linearly between the order statistics around it.
P95x100 ==
    LET n    == Len(measurements)
        rank == 95 * (n - 1)
        lo   == 1 + (rank \div 100)
        hi   == IF rank % 100 = 0 THEN lo ELSE lo + 1
    IN  ((100 - (rank % 100)) * OrderStatistic(lo)) + ((rank % 100) * OrderStatistic(hi))

\* C6: for a non-empty store the grade is PASS exactly when the 95th percentile
\* of rtt_ms is strictly below 600: 599 gives PASS and 600 gives FAIL.
C6_PassIffP95Below600 ==
    (pc = "reported" /\ measurements # <<>>) =>
        /\ report.status = "ok"
        /\ report.grade \in {"PASS", "FAIL"}
        /\ report.grade = "PASS" <=> P95x100 < 60000
        /\ P95x100 = 59900 => report.grade = "PASS"
        /\ P95x100 = 60000 => report.grade = "FAIL"

\* C6 witness: a report over a store whose 95th percentile is exactly 600.
C6_Witness == pc = "reported" /\ measurements # <<>> /\ P95x100 = 60000 /\ report.grade = "FAIL"

\* The store of 95 measurements at 100 ms and 5 measurements at 5000 ms.
C7_Store ==
    /\ Len(measurements) = 100
    /\ Cardinality({n \in StoreIndexes : measurements[n].rtt_ms = 100}) = 95
    /\ Cardinality({n \in StoreIndexes : measurements[n].rtt_ms = 5000}) = 5

\* C7 as stated: on that store the 95th percentile crosses into the tail and the
\* verdict is FAIL.
C7_Original ==
    (pc = "reported" /\ C7_Store) =>
        /\ report.all_measurements.p95_x100 > 100 * 100
        /\ report.grade = "FAIL"

\* C7 (amended): on that store the 95th percentile is interpolated between the
\* 95th and the 96th value, 100 + 0.05 * 4900 = 345 ms: it crosses into the tail
\* but stays below 600, and the verdict is PASS.
C7_Amended ==
    (pc = "reported" /\ C7_Store) =>
        /\ report.all_measurements.p95_x100 = 34500
        /\ report.p95_latency_x100 > 100 * 100
        /\ report.grade = "PASS"

\* C7 witness: the report over that store.
C7_Witness == pc = "reported" /\ C7_Store /\ report.status = "ok"

(***************************************************************************)
(* Skip-ahead after a pairing                                              *)
(***************************************************************************)
\* Caller burst b lies within the 1000 ms that follow the agent onset of pair p.
WithinSkip(p, b) ==
    /\ p.agent_response <= stereo.left[b].start
    /\ stereo.left[b].end <= p.agent_response + PairedSkip

\* The pairs whose caller onset lies between time from and time to.
PairsBetween(from, to) ==
    {q \in PairIndexes : from <= pairs[q].user_onset /\ pairs[q].user_onset < to}

\* C11: when a second caller burst lies within the 1000 ms after the agent
\* onset of a pairing, the scan holds exactly one pair for the caller speech
\* from the paired onset to the end of that second burst: the second burst
\* is skipped and never paired.
C11_OnePairForTwoBursts ==
    \A n \in PairIndexes : \A b \in DOMAIN stereo.left :
        WithinSkip(pairs[n], b) =>
            PairsBetween(pairs[n].user_onset, stereo.left[b].end) = {n}

\* The scan has ended with one pair, and the skipped second burst is caller
\* speech that passes the sustained check and has an agent response in its
\* own search window.
C11_Witness ==
    /\ pc = "done"
    /\ Len(pairs) = 1
    /\ \E b \in DOMAIN stereo.left :
          /\ WithinSkip(pairs[1], b)
          /\ PassesSustainedCheck(stereo.left, stereo.left[b].start)
          /\ AgentSearch(stereo.left[b].start).found

(***************************************************************************)
(* LatencyAnalysisEngine.run_analysis on one engine, call after call       *)
(*                                                                         *)
(* The recording source lists recordings; each listed recording has a      *)
(* kind that says what the source serves when the recording is fetched.    *)
(***************************************************************************)
MaxRecordings == 2

MaxRuns == 2

Sids == <<"RE1", "RE2", "RE3", "RE4">>

CallSids == <<"CA1", "CA2", "CA3", "CA4">>

\* What fetching and decoding a listed recording can do.
RecordingKinds ==
    {"good", "faint", "unanswered", "mono", "request_raises", "status_404", "undecodable"}

\* client.request raises, the status is not 200, or AudioSegment.from_file raises
FailureKinds == {"request_raises", "status_404", "undecodable"}

NoSound == [channels |-> 2, len |-> 0, left |-> <<>>, right |-> <<>>]

\* The decoded audio of a recording that is fetched and decoded.
\*   good:       a caller onset at 10 ms answered at 110 ms at -18 dBFS
\*   faint:      a 50 ms caller blip, then an onset at 60 ms answered at
\*               160 ms at -25 dBFS (confidence 5/30)
\*   unanswered: a caller onset the agent never answers
\*   mono:       one channel only
AudioOf(kind) ==
    CASE kind = "good" ->
           [channels |-> 2, len |-> 300,
            left |-> <<[start |-> 10, end |-> 110, level |-> LevelMinus20]>>,
            right |-> <<[start |-> 110, end |-> 210, level |-> LevelMinus18]>>]
      [] kind = "faint" ->
           [channels |-> 2, len |-> 300,
            left |-> <<[start |-> 0, end |-> 50, level |-> LevelMinus20],
                       [start |-> 60, end |-> 160, level |-> LevelMinus20]>>,
            right |-> <<[start |-> 160, end |-> 260, level |-> LevelMinus25]>>]
      [] kind = "unanswered" ->
           [channels |-> 2, len |-> 300,
            left |-> <<[start |-> 0, end |-> 100, level |-> LevelMinus20]>>,
            right |-> <<>>]
      [] kind = "mono" ->
           [channels |-> 1, len |-> 300,
            left |-> <<[start |-> 0, end |-> 300, level |-> LevelMinus18]>>,
            right |-> <<[start |-> 0, end |-> 300, level |-> LevelMinus18]>>]
      [] OTHER -> NoSound

\* The exception a failing fetch or decode raises.
ExceptionOf(kind) ==
    CASE kind = "request_raises" -> "ConnectionError"
      [] kind = "undecodable" -> "CouldntDecodeError"
      [] OTHER -> "none"

\* Mutant: analyze_recording only catches errors of the connection.
CaughtConnectionOnly(exception) == exception \in {"none", "ConnectionError"}

\* except Exception: every exception of a fetch or a decode is caught and logged
Caught(exception) == exception \in {"none", "ConnectionError", "CouldntDecodeError"}

\* Mutant: the run keeps only the measurements of the recording analysed last.
ExtendReplaces(all, ms) == ms

\* all_measurements.extend(measurements)
Extend(all, ms) == all \o ms

\* Mutant: the run goes on with an empty listing.
NothingToAnalyzeNever(recs) == FALSE

\* if not recordings
NothingToAnalyze(recs) == recs = <<>>

\* Mutant: a failed push is raised to the caller of run_analysis.
ReturnPushFailure(push, rep) ==
    IF push = "failed" THEN [status |-> "raised", error |-> "push failed"] ELSE rep

\* The push is inside try/except: run_analysis returns report whatever it did.
ReturnAfterPush(push, rep) == rep

\* The gateway is the default one (no push), the push succeeds, or it raises.
PushOutcomes == {"skipped", "pushed", "failed"}

\* The listings the source can hold: the kinds of its recordings, in order.
Listings == UNION {[1 .. m -> RecordingKinds] : m \in 0 .. MaxRecordings}

\* get_recent_recordings: the recordings the stream yielded before it ended
\* or raised; an exception of the stream is logged and what was collected is
\* returned.
get_recent_recordings(available, yielded) ==
    [n \in 1 .. yielded |->
        [sid |-> Sids[n], call_sid |-> CallSids[n], date_created |-> 8 + n,
         kind |-> available[n]]]

\* run_analysis is entered: its locals are fresh, the store is what the last
\* run left.
EnterRun(recs, raised) ==
    /\ pc \in {"idle", "returned"}
    /\ run < MaxRuns
    /\ run' = run + 1
    /\ recordings' = recs
    /\ listing_failed' = raised
    /\ all_measurements' = <<>>
    /\ attempted' = <<>>
    /\ pushed' = "none"
    /\ report' = NoReport
    /\ recording' = [sid |-> "RE1", call_sid |-> "CA1", date_created |-> 9]
    /\ stereo' = NoSound
    /\ i' = 0
    /\ pairs' = <<>>
    /\ examined' = 0
    /\ outcome' = "start"
    /\ UNCHANGED <<analyzer, measurements, legacy>>
    /\ UNCHANGED svcvars

\* run_analysis, no recording listed: the error is returned at once.
StartRunNoRecordings ==
    \E available \in Listings, raised \in BOOLEAN, yielded \in 0 .. MaxRecordings :
        /\ yielded <= Len(available)
        /\ ~raised => yielded = Len(available)
        /\ NothingToAnalyze(get_recent_recordings(available, yielded))
        /\ EnterRun(get_recent_recordings(available, yielded), raised)
        /\ returned' = [status |-> "error", error |-> "No recordings found"]
        /\ idx' = 0
        /\ pc' = "returned"

\* run_analysis, recordings listed: the loop over them starts.
StartRunAnalysis ==
    \E available \in Listings, raised \in BOOLEAN, yielded \in 0 .. MaxRecordings :
        /\ yielded <= Len(available)
        /\ ~raised => yielded = Len(available)
        /\ ~NothingToAnalyze(get_recent_recordings(available, yielded))
        /\ EnterRun(get_recent_recordings(available, yielded), raised)
        /\ returned' = NoReport
        /\ idx' = 1
        /\ pc' = "fetch"

\* analyze_recording on recordings[idx], fetch or decode failing: it returns
\* its empty list and the loop goes on; an exception nothing catches ends the
\* run.
FetchFails ==
    /\ pc = "fetch"
    /\ idx <= Len(recordings)
    /\ recordings[idx].kind \in FailureKinds
    /\ attempted' = Append(attempted, recordings[idx].sid)
    /\ IF Caught(ExceptionOf(recordings[idx].kind))
       THEN /\ all_measurements' = Extend(all_measurements, <<>>)
            /\ idx' = idx + 1
            /\ pc' = "fetch"
       ELSE /\ pc' = "crashed"
            /\ UNCHANGED <<all_measurements, idx>>
    /\ UNCHANGED <<recording, analyzer, stereo, i, pairs, examined, outcome, measurements,
                   report, recordings, returned, run, listing_failed, pushed>>
    /\ UNCHANGED legacy
    /\ UNCHANGED svcvars

\* analyze_recording on recordings[idx], audio fetched and decoded:
\* detect_speech_onsets starts on it.
FetchDecoded ==
    /\ pc = "fetch"
    /\ idx <= Len(recordings)
    /\ recordings[idx].kind \notin FailureKinds
    /\ attempted' = Append(attempted, recordings[idx].sid)
    /\ recording' = [sid |-> recordings[idx].sid,
                     call_sid |-> recordings[idx].call_sid,
                     date_created |-> recordings[idx].date_created]
    /\ stereo' = AudioOf(recordings[idx].kind)
    /\ i' = 0
    /\ pairs' = <<>>
    /\ examined' = 0
    /\ outcome' = "start"
    /\ pc' = "scan"
    /\ UNCHANGED <<analyzer, measurements, report, recordings, idx, all_measurements,
                   returned, run, listing_failed, pushed>>
    /\ UNCHANGED legacy
    /\ UNCHANGED svcvars

\* detect_speech_onsets has returned (at once with no pair when the audio is
\* not stereo): analyze_recording filters the pairs and the run extends its
\* list with what is kept.
CollectMeasurements ==
    /\ pc = "scan"
    /\ run > 0
    /\ ~IsStereo(stereo) \/ i >= stereo.len
    /\ all_measurements' = Extend(all_measurements, FilterPairs(pairs))
    /\ idx' = idx + 1
    /\ pc' = "fetch"
    /\ UNCHANGED <<recording, analyzer, stereo, i, pairs, examined, outcome, measurements,
                   report, recordings, returned, attempted, run, listing_failed, pushed>>
    /\ UNCHANGED legacy
    /\ UNCHANGED svcvars

\* The loop has ended: self.measurements = all_measurements, then
\* report = self.generate_report()
FinishAnalysis ==
    /\ pc = "fetch"
    /\ idx > Len(recordings)
    /\ measurements' = all_measurements
    /\ report' = ReportFor(all_measurements)
    /\ pc' = "push"
    /\ UNCHANGED <<recording, analyzer, stereo, i, pairs, examined, outcome, recordings,
                   idx, all_measurements, returned, attempted, run, listing_failed, pushed>>
    /\ UNCHANGED legacy
    /\ UNCHANGED svcvars

\* The push to the gateway, then return report.
PushMetrics ==
    /\ pc = "push"
    /\ \E push \in PushOutcomes :
          /\ pushed' = push
          /\ returned' = ReturnAfterPush(push, report)
    /\ pc' = "returned"
    /\ UNCHANGED <<recording, analyzer, stereo, i, pairs, examined, outcome, measurements,
                   report, recordings, idx, all_measurements, attempted, run, listing_failed>>
    /\ UNCHANGED legacy
    /\ UNCHANGED svcvars

RunInit ==
    /\ recording = [sid |-> "RE1", call_sid |-> "CA1", date_created |-> 9]
    /\ analyzer = DefaultAnalyzer
    /\ stereo = NoSound
    /\ i = 0
    /\ pairs = <<>>
    /\ examined = 0
    /\ outcome = "start"
    /\ pc = "idle"
    /\ measurements = <<>>
    /\ report = NoReport
    /\ recordings = <<>>
    /\ idx = 0
    /\ all_measurements = <<>>
    /\ returned = NoReport
    /\ attempted = <<>>
    /\ run = 0
    /\ listing_failed = FALSE
    /\ pushed = "none"
    /\ legacy = NoLegacy
    /\ ServicesIdle

RunNext ==
    \/ StartRunNoRecordings
    \/ StartRunAnalysis
    \/ FetchFails
    \/ FetchDecoded
    \/ ScanBelow
    \/ ScanUnsustained
    \/ ScanPaired
    \/ ScanNoResponse
    \/ CollectMeasurements
    \/ FinishAnalysis
    \/ PushMetrics

RunSpec == RunInit /\ [][RunNext]_vars

(***************************************************************************)
(* Claims about run_analysis                                               *)
(***************************************************************************)
\* The positions of the listed recordings of the given kinds.
ListedOf(kinds) == {n \in DOMAIN recordings : recordings[n].kind \in kinds}

\* The measurements of ms that come from the recording sid.
Contribution(ms, sid) == SelectSeq(ms, LAMBDA m : m.recording_sid = sid)

\* The loop over the listed recordings is over and the store is assigned.
StoreAssigned == pc \in {"push", "returned"} /\ recordings # <<>>

C13_EmptyStoreIsNoData ==
    /\ (pc = "returned" /\ measurements = <<>>) => returned.status = "error"
    /\ (pc \in {"push", "returned"} /\ measurements = <<>> /\ report.status # "none") =>
           report.status = "error"

\* A run over a recording whose only pair the filter dropped has returned.
C13_Witness ==
    /\ pc = "returned"
    /\ measurements = <<>>
    /\ ListedOf({"faint"}) # {}
    /\ returned = [status |-> "error", error |-> "No measurements available"]

\* C14: a failure while analysing one recording never ends the run: the
\* recordings are analysed in listing order, and when the loop is over every
\* listed recording has been analysed.
C14_RunNeverAborted ==
    /\ pc # "crashed"
    /\ Len(attempted) <= Len(recordings)
    /\ \A n \in DOMAIN attempted : attempted[n] = recordings[n].sid
    /\ StoreAssigned => Len(attempted) = Len(recordings)

\* A run has returned whose first recording failed and whose second gave a
\* measurement.
C14_Witness ==
    /\ pc = "returned"
    /\ Len(recordings) = 2
    /\ recordings[1].kind \in FailureKinds
    /\ Len(attempted) = 2
    /\ Len(measurements) = 1
    /\ measurements[1].recording_sid = recordings[2].sid

\* The measurement a "good" recording gives: caller onset 10 ms, agent 110 ms.
IsGoodMeasurement(ms, sid) ==
    /\ Len(Contribution(ms, sid)) = 1
    /\ Contribution(ms, sid)[1].user_onset_ms = 10
    /\ Contribution(ms, sid)[1].rtt_ms = 100

\* C15: a recording whose fetch raises, whose status is not 200 or whose
\* decode raises contributes no measurement, and the recordings around it
\* contribute what they contribute alone.
C15_FailedContributesNothing ==
    /\ \A n \in ListedOf(FailureKinds) :
          /\ Contribution(all_measurements, recordings[n].sid) = <<>>
          /\ StoreAssigned => Contribution(measurements, recordings[n].sid) = <<>>
    /\ \A n \in ListedOf({"good"}) :
          /\ n < idx => IsGoodMeasurement(all_measurements, recordings[n].sid)
          /\ StoreAssigned => IsGoodMeasurement(measurements, recordings[n].sid)

\* A run has returned whose first recording gave a measurement and whose
\* second failed.
C15_Witness ==
    /\ pc = "returned"
    /\ Len(recordings) = 2
    /\ recordings[1].kind = "good"
    /\ recordings[2].kind \in FailureKinds
    /\ Len(measurements) = 1

\* C16 as stated: when listing the recordings fails, no recording is analysed.
C16_Original == listing_failed => attempted = <<>>

\* C16: when the listing fails before it yields a recording, run_analysis
\* analyses no recording and returns the "No recordings found" error; the
\* recordings a failing listing had yielded are analysed like any others.
C16_Amended ==
    /\ (listing_failed /\ recordings = <<>>) =>
          /\ attempted = <<>>
          /\ pc = "returned"
          /\ returned = [status |-> "error", error |-> "No recordings found"]
    /\ (listing_failed /\ StoreAssigned) => Len(attempted) = Len(recordings)

\* A listing failed at once and the run has returned.
C16_Witness ==
    /\ listing_failed
    /\ recordings = <<>>
    /\ pc = "returned"
    /\ run = 1

\* C17: the push does not touch the run: whatever the push does, the store
\* stays as it is and run_analysis returns the report generate_report gave.
C17_PushFailureHarmless ==
    [][pc = "push" => (measurements' = measurements /\ returned' = report)]_vars

\* A run whose push failed has returned a report with statistics.
C17_Witness ==
    /\ pc = "returned"
    /\ pushed = "failed"
    /\ returned.status = "ok"
    /\ returned = report

\* C18: once run_analysis has returned, the store holds exactly the
\* measurements of that run.
C18_StoreIsLastRun == pc = "returned" => measurements = all_measurements

(***************************************************************************)
(* Claims about generate_report and the store                              *)
(***************************************************************************)
\* C19: generate_report leaves the store as it is: its length, its order and
\* every field of every measurement.
C19_ReportLeavesStore == [][pc = "report" => measurements' = measurements]_vars

\* A report with statistics has been generated from a store of several
\* measurements.
C19_Witness ==
    /\ pc = "reported"
    /\ report.status = "ok"
    /\ Len(measurements) = MaxSmallStore
    /\ measurements[1] # measurements[2]

\* The store ms with its measurements in the order perm.
Permuted(ms, perm) == [n \in 1 .. Len(ms) |-> ms[perm[n]]]

\* Every order of a short store; of a longer one, the reversed order, the
\* rotation by one place and the exchange of its two ends.
Reorderings(ms) ==
    IF Len(ms) <= MaxSmallStore
    THEN {Permuted(ms, perm) : perm \in Permutations(1 .. Len(ms))}
    ELSE {[n \in 1 .. Len(ms) |-> ms[Len(ms) + 1 - n]],
          [n \in 1 .. Len(ms) |-> ms[(n % Len(ms)) + 1]],
          [n \in 1 .. Len(ms) |->
              IF n = 1 THEN ms[Len(ms)] ELSE IF n = Len(ms) THEN ms[1] ELSE ms[n]]}

\* C20: the report does not depend on the order of the measurements: count,
\* sum and so mean, median, p95, p99, min, max, hourly buckets and grade of
\* every reordering of the store are those of the store.
C20_OrderIndependent ==
    pc = "reported" => \A ms \in Reorderings(measurements) : ReportFor(ms) = report

\* A report has been generated from a short store that is not in increasing
\* order of latency, across two hours.
C20_Witness ==
    /\ pc = "reported"
    /\ Len(measurements) = MaxSmallStore
    /\ measurements[1].rtt_ms > measurements[2].rtt_ms
    /\ measurements[1].timestamp # measurements[2].timestamp
    /\ report.status = "ok"

(***************************************************************************)
(* Short recordings for the edges of the scan: speech with one-window      *)
(* gaps, agent speech at the two ends of the search window, and a channel  *)
(* length that is not a multiple of the step, whose last window is short   *)
(***************************************************************************)
\* Full scale: every sample at the largest amplitude.
LevelZero == [dBFS |-> 0, rms |-> 32768, max |-> 32768]

EdgeAnalyzer ==
    [thresh_db |-> -30, min_speech_duration |-> 30, max_response_window |-> 80]

\* min_speech_duration of one window
FrameAnalyzer ==
    [thresh_db |-> -30, min_speech_duration |-> 10, max_response_window |-> 80]

EdgeLengths == {120, 125}

EdgeCallerStarts == {0, 20, 40, 100}

EdgeCallerKinds ==
    {[dur |-> 10, level |-> LevelMinus20],
     [dur |-> 30, level |-> LevelMinus20]}

EdgeAgentStarts == {30, 50, 80, 100, 120}

EdgeAgentKinds ==
    {[dur |-> 10, level |-> LevelMinus18],
     [dur |-> 30, level |-> LevelMinus18],
     [dur |-> 30, level |-> LevelZero]}

\* The bursts that start inside a channel of length len, cut at its end.
EdgeBursts(starts, kinds, len) ==
    {[start |-> s, end |-> Min(s + kd.dur, len), level |-> kd.level] :
        s \in {t \in starts : t < len}, kd \in kinds}

\* The channels of length len with at most n such bursts, in time order.
EdgeChannels(starts, kinds, n, len) ==
    UNION {{ch \in [1 .. m -> EdgeBursts(starts, kinds, len)] :
                \A b \in 1 .. m - 1 : ch[b].end <= ch[b + 1].start} : m \in 0 .. n}

EdgeRecordings ==
    UNION {{[channels |-> 2, len |-> len, left |-> l, right |-> r] :
                l \in EdgeChannels(EdgeCallerStarts, EdgeCallerKinds, MaxCallerBursts, len),
                r \in EdgeChannels(EdgeAgentStarts, EdgeAgentKinds, MaxAgentBursts, len)} :
           len \in EdgeLengths}

EdgeInit ==
    /\ recording = [sid |-> "RE1", call_sid |-> "CA1", date_created |-> 9]
    /\ analyzer \in {EdgeAnalyzer, FrameAnalyzer}
    /\ stereo \in EdgeRecordings
    /\ i = 0
    /\ pairs = <<>>
    /\ examined = 0
    /\ outcome = "start"
    /\ pc = "scan"
    /\ measurements = <<>>
    /\ report = NoReport
    /\ recordings = <<>>
    /\ idx = 0
    /\ all_measurements = <<>>
    /\ returned = NoReport
    /\ attempted = <<>>
    /\ run = 0
    /\ listing_failed = FALSE
    /\ pushed = "none"
    /\ legacy = NoLegacy
    /\ ServicesIdle

EdgeSpec == EdgeInit /\ [][Next]_vars

\* A few of the short recordings: at most one caller burst and at most one
\* agent burst of 30 ms at -18 dBFS, in a channel of 125 ms.
LiveRecordings ==
    {r \in EdgeRecordings :
        /\ r.len = 125
        /\ Len(r.left) <= 1
        /\ Len(r.right) <= 1
        /\ \A b \in DOMAIN r.right :
              r.right[b].level = LevelMinus18 /\ r.right[b].end - r.right[b].start = 30}

LiveInit ==
    /\ recording = [sid |-> "RE1", call_sid |-> "CA1", date_created |-> 9]
    /\ analyzer \in {EdgeAnalyzer, FrameAnalyzer}
    /\ stereo \in LiveRecordings
    /\ i = 0
    /\ pairs = <<>>
    /\ examined = 0
    /\ outcome = "start"
    /\ pc = "scan"
    /\ measurements = <<>>
    /\ report = NoReport
    /\ recordings = <<>>
    /\ idx = 0
    /\ all_measurements = <<>>
    /\ returned = NoReport
    /\ attempted = <<>>
    /\ run = 0
    /\ listing_failed = FALSE
    /\ pushed = "none"
    /\ legacy = NoLegacy
    /\ ServicesIdle

\* The caller loop is sequential code: while an iteration can run, one runs.
LiveSpec == LiveInit /\ [][Next]_vars /\ WF_vars(Next)

(***************************************************************************)
(* detect_onsets: the legacy entry point, beside a direct call of          *)
(* detect_speech_onsets on the same audio                                  *)
(***************************************************************************)
LegacyThresholds == {-30, -26, -19}

LegacyLengths == {1500}

LegacyCallerStarts == {0, 1200}

LegacyCallerKinds ==
    {[dur |-> 50, level |-> LevelMinus20],
     [dur |-> 100, level |-> LevelMinus20],
     [dur |-> 100, level |-> LevelMinus18]}

LegacyAgentStarts == {100, 1300}

LegacyAgentKinds ==
    {[dur |-> 100, level |-> LevelMinus18],
     [dur |-> 100, level |-> LevelMinus25]}

\* Two-channel clips, and the same caller channels as one-channel clips.
LegacyRecordings ==
    UNION {{[channels |-> c, len |-> len, left |-> l, right |-> r] :
               c \in {2},
               l \in Channels(LegacyCallerStarts, LegacyCallerKinds, MaxCallerBursts, len),
               r \in Channels(LegacyAgentStarts, LegacyAgentKinds, MaxAgentBursts, len)}
           \cup
           {[channels |-> c, len |-> len, left |-> l, right |-> r] :
               c \in {1},
               l \in Channels(LegacyCallerStarts, LegacyCallerKinds, MaxCallerBursts, len),
               r \in {<<>>}} : len \in LegacyLengths}

\* Mutant: the analyzer keeps the default threshold.
NewAnalyzerDefaultThreshold(thresh_db) == DefaultAnalyzer

\* EnhancedAudioAnalyzer(thresh_db=thresh_db): the other parameters default
NewAnalyzer(thresh_db) ==
    [thresh_db |-> thresh_db, min_speech_duration |-> 100, max_response_window |-> 3000]

\* Mutant: the two onsets of a pair change places.
ToLegacySwapped(ps) ==
    [n \in 1 .. Len(ps) |-> <<ps[n].agent_response, ps[n].user_onset>>]

\* [(user_onset, agent_response) for user_onset, agent_response, _, _ in enhanced_pairs]
ToLegacy(ps) ==
    [n \in 1 .. Len(ps) |-> <<ps[n].user_onset, ps[n].agent_response>>]

\* detect_speech_onsets has returned: not two channels, or the loop has ended
ScanReturned == pc = "scan" /\ (~IsStereo(stereo) \/ i >= stereo.len)

\* The direct call of detect_speech_onsets returns its pairs.
DirectReturns ==
    /\ legacy.phase = "direct"
    /\ ScanReturned
    /\ legacy' = [legacy EXCEPT !.phase = "kept", !.reference = pairs]
    /\ pc' = "done"
    /\ UNCHANGED <<recording, analyzer, stereo, i, pairs, examined, outcome,
                   measurements, report>>
    /\ UNCHANGED runvars
    /\ UNCHANGED svcvars

\* detect_onsets(stereo, thresh_db) builds its analyzer and starts the scan.
DetectOnsets ==
    /\ legacy.phase = "kept"
    /\ pc = "done"
    /\ analyzer' = NewAnalyzer(legacy.thresh_db)
    /\ i' = 0
    /\ pairs' = <<>>
    /\ examined' = 0
    /\ outcome' = "start"
    /\ pc' = "scan"
    /\ legacy' = [legacy EXCEPT !.phase = "legacy"]
    /\ UNCHANGED <<recording, stereo, measurements, report>>
    /\ UNCHANGED runvars
    /\ UNCHANGED svcvars

\* detect_onsets returns the pairs in the legacy format.
DetectOnsetsReturns ==
    /\ legacy.phase = "legacy"
    /\ ScanReturned
    /\ legacy' = [legacy EXCEPT !.phase = "returned", !.result = ToLegacy(pairs)]
    /\ pc' = "done"
    /\ UNCHANGED <<recording, analyzer, stereo, i, pairs, examined, outcome,
                   measurements, report>>
    /\ UNCHANGED runvars
    /\ UNCHANGED svcvars

LegacyInit ==
    /\ recording = [sid |-> "RE1", call_sid |-> "CA1", date_created |-> 9]
    /\ stereo \in LegacyRecordings
    /\ \E t \in LegacyThresholds :
          /\ analyzer = [DefaultAnalyzer EXCEPT !.thresh_db = t]
          /\ legacy = [phase |-> "direct", thresh_db |-> t,
                       reference |-> <<>>, result |-> <<>>]
    /\ i = 0
    /\ pairs = <<>>
    /\ examined = 0
    /\ outcome = "start"
    /\ pc = "scan"
    /\ measurements = <<>>
    /\ report = NoReport
    /\ recordings = <<>>
    /\ idx = 0
    /\ all_measurements = <<>>
    /\ returned = NoReport
    /\ attempted = <<>>
    /\ run = 0
    /\ listing_failed = FALSE
    /\ pushed = "none"
    /\ ServicesIdle

LegacyNext ==
    \/ ScanBelow
    \/ ScanUnsustained
    \/ ScanPaired
    \/ ScanNoResponse
    \/ DirectReturns
    \/ DetectOnsets
    \/ DetectOnsetsReturns

LegacySpec == LegacyInit /\ [][LegacyNext]_vars

(***************************************************************************)
(* Claims about the frames of the onset scan                               *)
(***************************************************************************)
\* The last loop iteration validated the caller frame it examined.
Validated == outcome \in {"paired", "noresponse"}

\* C21: the caller frame a loop iteration examines is validated as an onset
\* exactly when it is strictly above the threshold and the frames of
\* [i, i + D_min) strictly above the threshold add up to D_min; a frame at
\* the threshold does not count.
C21_ValidatedIffSustained ==
    outcome # "start" => (Validated <=> PassesSustainedCheck(stereo.left, examined))

\* After a pairing, a caller frame whose level equals the threshold was
\* examined and taken as below it.
C21_Witness ==
    /\ pairs # <<>>
    /\ outcome = "below"
    /\ \E b \in DOMAIN stereo.left :
          /\ stereo.left[b].start <= examined
          /\ examined < stereo.left[b].end
          /\ stereo.left[b].level.dBFS = analyzer.thresh_db

\* The frames of [k, k + D_min) that start inside the channel.
FramesOf(k) ==
    {j \in k .. (k + analyzer.min_speech_duration - 1) : j < stereo.len /\ (j - k) % 10 = 0}

\* The frame of channel ch at j is strictly above the threshold.
FrameAbove(ch, j) ==
    \E b \in DOMAIN ch :
        ch[b].start <= j /\ j < ch[b].end /\ ch[b].level.dBFS > analyzer.thresh_db

\* The frames of the D_min window at k that are not above the threshold.
Dropouts(ch, k) == {j \in FramesOf(k) : ~FrameAbove(ch, j)}

\* The D_min window at k starts with speech, has one frame that is not above
\* the threshold, and speech resumes in the frame after it.
BriefDropout(ch, k) ==
    /\ FrameAbove(ch, k)
    /\ \E j \in FramesOf(k) :
          /\ Dropouts(ch, k) = {j}
          /\ j + step \in FramesOf(k)

\* C22 as stated, for the caller: a brief dropout inside the D_min window does
\* not keep a frame from being validated.
C22_Original == ~(outcome = "unsustained" /\ BriefDropout(stereo.left, examined))

\* C22: the sustained-duration rule tolerates no dropout: a caller frame is
\* validated, and an agent frame accepted, only if every frame of its D_min
\* window is above the threshold.
C22_Amended ==
    /\ Validated => Dropouts(stereo.left, examined) = {}
    /\ \A n \in PairIndexes : Dropouts(stereo.right, pairs[n].agent_response) = {}

\* Caller speech with a one-frame gap was paired, with its onset after the gap.
C22_Witness ==
    /\ pc = "done"
    /\ \E n \in PairIndexes :
          /\ pairs[n].user_onset >= 2 * step
          /\ BriefDropout(stereo.left, pairs[n].user_onset - (2 * step))

\* The frame at j is the trailing frame of a channel whose length is not a
\* multiple of the step: it is shorter than the step.
TrailingShortFrame(j) == j < stereo.len /\ stereo.len < j + step

\* C23: a trailing frame shorter than the step is ignored: no loop iteration
\* examines it, no validated onset counts it towards its sustained duration,
\* and no pair has it as caller onset, as agent onset or in the sustained
\* window of its agent onset.
C23_TrailingFrameIgnored ==
    /\ outcome # "start" => ~TrailingShortFrame(examined)
    /\ Validated => \A j \in FramesOf(examined) : ~TrailingShortFrame(j)
    /\ \A n \in PairIndexes :
          /\ ~TrailingShortFrame(pairs[n].user_onset)
          /\ \A j \in FramesOf(pairs[n].agent_response) : ~TrailingShortFrame(j)

\* C24: the agent onset of every pair is a frame of the search window of its
\* caller onset t0: on the step grid from t0 + D_min, at or after t0 + D_min,
\* before t0 + W_max and inside the channel.
C24_AgentOnsetInSearchWindow ==
    \A n \in PairIndexes :
        /\ InSearchWindow(pairs[n].user_onset, pairs[n].agent_response)
        /\ (pairs[n].agent_response - pairs[n].user_onset) % step = 0

\* A validated caller onset stayed without a pair although agent speech that
\* passes the sustained check starts exactly at t0 + W_max, inside the channel.
C24_Witness ==
    /\ pc = "done"
    /\ outcome = "noresponse"
    /\ examined + analyzer.max_response_window < stereo.len
    /\ PassesSustainedCheck(stereo.right, examined + analyzer.max_response_window)

\* The frames the agent search visits for the caller onset t0 before frame k.
SearchedBefore(t0, k) ==
    {a \in (t0 + analyzer.min_speech_duration) .. (k - 1) :
        (a - t0 - analyzer.min_speech_duration) % step = 0}

\* The level of the agent channel at frame k.
AgentLevel(k) ==
    LET b == CHOOSE c \in DOMAIN stereo.right :
                 stereo.right[c].start <= k /\ k < stereo.right[c].end
    IN  stereo.right[b].level.dBFS

\* C25: the agent onset of a pair is the first frame of the search window, in
\* forward order, that is above the threshold and passes the sustained check:
\* it passes, and no frame searched before it does.
C25_EarliestWins ==
    \A n \in PairIndexes :
        /\ PassesSustainedCheck(stereo.right, pairs[n].agent_response)
        /\ \A a \in SearchedBefore(pairs[n].user_onset, pairs[n].agent_response) :
              ~PassesSustainedCheck(stereo.right, a)

\* A pair whose search window holds a later frame that passes the check and is
\* louder than the agent onset reported.
C25_Witness ==
    \E n \in PairIndexes : \E a \in DOMAIN stereo.right :
        LET k == stereo.right[a].start
        IN  /\ k > pairs[n].agent_response
            /\ InSearchWindow(pairs[n].user_onset, k)
            /\ (k - pairs[n].user_onset) % step = 0
            /\ PassesSustainedCheck(stereo.right, k)
            /\ AgentLevel(k) > AgentLevel(pairs[n].agent_response)

\* The rational r, of positive denominator, clamped to [0, 1].
Clamp01(r) ==
    IF r.num < 0 THEN [num |-> 0, den |-> 1]
    ELSE IF r.num > r.den THEN [num |-> 1, den |-> 1]
    ELSE r

\* C26: the confidence of a pair is clamp01((d - theta) / (-theta)), d the
\* dBFS of the agent frame accepted and theta the negative threshold.
C26_ConfidenceIsClamped ==
    \A n \in PairIndexes :
        LET d == AgentLevel(pairs[n].agent_response)
            c == Clamp01([num |-> d - analyzer.thresh_db, den |-> -analyzer.thresh_db])
        IN  pairs[n].confidence.num * c.den = c.num * pairs[n].confidence.den

\* A pair whose agent frame is at full scale: its confidence is 1.
C26_Witness ==
    \E n \in PairIndexes :
        /\ AgentLevel(pairs[n].agent_response) = 0
        /\ pairs[n].confidence.num = pairs[n].confidence.den

\* C27: after a validated caller onset at t0 without an agent match the scan
\* position is t0 + 500, and the next frame a loop iteration examines is the
\* one at t0 + 500: no frame in between is examined.
C27_ResumeAfterNoResponse ==
    [][/\ outcome = "noresponse" => i = examined + NoResponseSkip
       /\ (outcome = "noresponse" /\ examined' # examined) =>
              examined' = examined + NoResponseSkip]_vars

\* An onset stayed without a match while the caller went on speaking: the
\* frame after it would pass the sustained check, and the scan is not over.
C27_Witness ==
    /\ outcome = "noresponse"
    /\ pc = "scan"
    /\ i < stereo.len
    /\ PassesSustainedCheck(stereo.left, examined + step)

\* C28: a loop iteration on a caller frame that is at or below the threshold,
\* or above it without passing the sustained check, moves the scan position by
\* exactly one step and adds no pair.
C28_OneStepAfterRejection ==
    [][(pc = "scan" /\ i < stereo.len /\ ~PassesSustainedCheck(stereo.left, i)) =>
           (i' = i + step /\ pairs' = pairs)]_vars

\* After a pairing, a caller frame above the threshold failed the sustained
\* check and the scan moved one step.
C28_Witness ==
    /\ pairs # <<>>
    /\ outcome = "unsustained"
    /\ i = examined + step

\* C29: every iteration of the caller loop moves the scan position strictly
\* forward, and the scan of a recording ends.
C29_ScanTerminates ==
    /\ [][pc' = "scan" => i' > i]_vars
    /\ <>(pc = "done")

\* A scan that made a pairing has ended, its position beyond the channel.
C29_Witness ==
    /\ pc = "done"
    /\ pairs # <<>>
    /\ i = LastPair.agent_response + PairedSkip
    /\ i >= stereo.len

\* C30: when detect_onsets(stereo, thresh_db) has returned, its result is the
\* list of (user_onset, agent_response) of the pairs that detect_speech_onsets
\* returns for the same audio with the same threshold and the default
\* min_speech_duration and max_response_window: as many entries, in the same order.
C30_LegacyIsProjection ==
    legacy.phase = "returned" =>
        /\ Len(legacy.result) = Len(legacy.reference)
        /\ \A n \in 1 .. Len(legacy.reference) :
              /\ legacy.result[n][1] = legacy.reference[n].user_onset
              /\ legacy.result[n][2] = legacy.reference[n].agent_response

C30_Witness ==
    /\ legacy.phase = "returned"
    /\ legacy.thresh_db # DefaultAnalyzer.thresh_db
    /\ Len(legacy.result) = 2
    /\ legacy.result[1][1] < legacy.result[2][1]

(***************************************************************************)
(* Claims about the pairs of one scan and the retention filter             *)
(***************************************************************************)
\* C31: the pairs of one scan are interleaved in time: in every pair the
\* caller onset is before the agent onset, and the agent onset of a pair is
\* before the caller onset of the next pair; so caller onsets and agent onsets
\* are strictly increasing.
C31_PairsInterleaved ==
    /\ \A n \in PairIndexes : pairs[n].user_onset < pairs[n].agent_response
    /\ \A n \in PairIndexes : \A m \in PairIndexes :
          n < m => /\ pairs[n].agent_response < pairs[m].user_onset
                   /\ pairs[n].user_onset < pairs[m].user_onset
                   /\ pairs[n].agent_response < pairs[m].agent_response

\* Two pairs: the scan resumed 1000 ms after the first agent onset and met
\* the second caller onset 100 ms later.
C31_Witness ==
    /\ pc = "done"
    /\ Len(pairs) = 2
    /\ pairs[2].user_onset = pairs[1].agent_response + PairedSkip + 100

\* The pair's confidence does not exceed 0.3.
LowConfidence(p) == 10 * p.confidence.num <= 3 * p.confidence.den

\* C32: every pair has min_speech_duration <= agent onset - caller onset <
\* max_response_window; with the default analyzer (100, 3000) every pair is
\* within the 50..5000 bound of the filter, and the store holds exactly the
\* pairs of confidence above 0.3, in order.
C32_RttWithinWindow ==
    /\ \A n \in PairIndexes :
          LET rtt == pairs[n].agent_response - pairs[n].user_onset
          IN  /\ analyzer.min_speech_duration <= rtt
              /\ rtt < analyzer.max_response_window
              /\ analyzer = DefaultAnalyzer => 50 <= rtt /\ rtt <= 5000
    /\ (pc = "done" /\ analyzer = DefaultAnalyzer) =>
          /\ Len(measurements) = Cardinality({n \in PairIndexes : ~LowConfidence(pairs[n])})
          /\ \A n \in PairIndexes :
                LowConfidence(pairs[n]) <=>
                    (\A k \in StoreIndexes : measurements[k].user_onset_ms # pairs[n].user_onset)

\* With the default analyzer, a pair at the lower end of the window
\* (rtt = 100) is stored and another pair is discarded for its confidence.
C32_Witness ==
    /\ pc = "done"
    /\ analyzer = DefaultAnalyzer
    /\ Len(pairs) = 2
    /\ Len(measurements) = 1
    /\ pairs[1].agent_response - pairs[1].user_onset = analyzer.min_speech_duration

\* The agent frames searched for the caller onset t0 that pass the check.
VerifiedFor(t0) ==
    {k \in (t0 + analyzer.min_speech_duration) ..
           (Min(stereo.len, t0 + analyzer.max_response_window) - 1) :
        /\ (k - t0 - analyzer.min_speech_duration) % step = 0
        /\ PassesSustainedCheck(stereo.right, k)}

\* The confidence of an agent frame at k does not exceed 0.3.
QuietFrame(k) == 10 * (AgentLevel(k) - analyzer.thresh_db) <= 3 * (-analyzer.thresh_db)

\* The first verified agent frame for the caller onset t0 has confidence <= 0.3.
QuietFirst(t0) == VerifiedFor(t0) # {} /\ QuietFrame(SetMin(VerifiedFor(t0)))

\* C33: when the first verified agent frame for a validated caller onset has
\* confidence <= 0.3, the scan position after the iteration is that frame +
\* 1000, whatever verified frames follow it in the search window, and at the
\* end the store has no measurement for that caller onset.
C33_SkipIgnoresFilter ==
    /\ (outcome \in {"paired", "noresponse"} /\ QuietFirst(examined)) =>
          i = SetMin(VerifiedFor(examined)) + PairedSkip
    /\ pc = "done" =>
          \A n \in PairIndexes :
              QuietFirst(pairs[n].user_onset) =>
                  \A k \in StoreIndexes : measurements[k].user_onset_ms # pairs[n].user_onset

\* A quiet first agent frame was paired though a louder verified frame, which
\* the filter would keep, follows in the same search window; nothing is stored.
C33_Witness ==
    /\ pc = "done"
    /\ Len(pairs) = 1
    /\ QuietFirst(pairs[1].user_onset)
    /\ \E k \in VerifiedFor(pairs[1].user_onset) : ~QuietFrame(k)
    /\ measurements = <<>>

(***************************************************************************)
(* The orchestrator (services/orchestrator/app.py)                         *)
(*                                                                         *)
(* One process, one event loop.  dispatch_agent and the branches of        *)
(* livekit_webhook contain no await between reading and writing            *)
(* room_stats (the Redis client is the synchronous one), and neither does  *)
(* one round of cleanup_stale_rooms, so each is one step.  The JWT of a    *)
(* job is left out: it is a function of the room.                          *)
(***************************************************************************)
\* MAX_CONCURRENT_CALLS is read from the environment; the model runs with 2.
MAX_CONCURRENT_CALLS == 2

\* No dispatch is requested while the "rooms" list holds MaxQueue jobs.
MaxQueue == MAX_CONCURRENT_CALLS + 1

\* The clock advances MaxTicks times, ClockStep seconds at a time.
MaxTicks == 2

ClockStep == 2000

\* current_time - stats.get("last_seen", 0) > 3600
StaleAfter == 3600

RoomName(n) == <<"call", n>>

Rooms == {RoomName(n) : n \in 1 .. MAX_CONCURRENT_CALLS + 1}

\* event.get("room", {}).get("name") is None
NoRoom == <<>>

ParticipantKinds == {"SIP", "STANDARD"}

\* What goes wrong inside dispatch_agent: nothing, the token cannot be made,
\* lpush raises before the server has run it, or after (the reply is lost).
DispatchFaults == {"none", "token", "push", "push_reply_lost"}

\* identity = f"agent-{room}"
AgentIdentity(room) == <<"agent", room>>

Job(room, participant_identity, t) ==
    [room |-> room, identity |-> AgentIdentity(room),
     participant_identity |-> participant_identity, timestamp |-> t]

Stat(room, participant_identity, t) ==
    [start_time |-> t, last_seen |-> t,
     participant_identity |-> participant_identity, agent_identity |-> AgentIdentity(room)]

\* d[key] = value
Put(d, key, value) == [k \in DOMAIN d \cup {key} |-> IF k = key THEN value ELSE d[k]]

\* del d[key], for every key of keys
Del(d, keys) == [k \in DOMAIN d \ keys |-> d[k]]

\* Mutant: the capacity test is strict.
AtCapacityStrict(stats) == Cardinality(DOMAIN stats) > MAX_CONCURRENT_CALLS

\* len(room_stats) >= MAX_CONCURRENT_CALLS
AtCapacity(stats) == Cardinality(DOMAIN stats) >= MAX_CONCURRENT_CALLS

\* Mutant: the room is recorded before the job is pushed.
DispatchRecordsFirst(room, participant_identity, fault) ==
    IF AtCapacity(room_stats) \/ fault = "token"
    THEN [result |-> FALSE, room_stats |-> room_stats, queue |-> queue]
    ELSE [result |-> fault = "none",
          room_stats |-> Put(room_stats, room, Stat(room, participant_identity, now)),
          queue |-> IF fault = "push" THEN queue
                    ELSE <<Job(room, participant_identity, now)>> \o queue]

\* dispatch_agent(room, participant_identity): the value returned, and
\* room_stats and the "rooms" list when it returns.
dispatch_agent(room, participant_identity, fault) ==
    IF AtCapacity(room_stats)
    THEN [result |-> FALSE, room_stats |-> room_stats, queue |-> queue]
    ELSE IF fault \in {"token", "push"}
    THEN [result |-> FALSE, room_stats |-> room_stats, queue |-> queue]
    ELSE IF fault = "push_reply_lost"
    THEN [result |-> FALSE, room_stats |-> room_stats,
          queue |-> <<Job(room, participant_identity, now)>> \o queue]
    ELSE [result |-> TRUE,
          room_stats |-> Put(room_stats, room, Stat(room, participant_identity, now)),
          queue |-> <<Job(room, participant_identity, now)>> \o queue]

\* The record of a request: its answer, and for a request that called
\* dispatch_agent the room_stats and the "rooms" list it found.
Request(op, room, ok, status, dispatched, result) ==
    [op |-> op, room |-> room, ok |-> ok, status |-> status, dispatched |-> dispatched,
     result |-> result, at |-> now,
     stats_before |-> IF dispatched THEN room_stats ELSE <<>>,
     queue_before |-> IF dispatched THEN queue ELSE <<>>]

\* POST /webhooks/livekit, event participant_joined
ParticipantJoined ==
    /\ Len(queue) < MaxQueue
    /\ \E room \in Rooms \cup {NoRoom}, kind \in ParticipantKinds, fault \in DispatchFaults :
          IF kind = "SIP" /\ room # NoRoom
          THEN LET d == dispatch_agent(room, "sip-caller", fault)
               IN  /\ room_stats' = d.room_stats
                   /\ queue' = d.queue
                   /\ orch_last' = Request("participant_joined", room, d.result, 200,
                                           TRUE, d.result)
          ELSE /\ orch_last' = Request("participant_joined", room, TRUE, 200, FALSE, FALSE)
               /\ UNCHANGED <<room_stats, queue>>
    /\ UNCHANGED now
    /\ UNCHANGED <<enginevars, agentvars, loadvars>>

\* POST /webhooks/livekit, event participant_disconnected
ParticipantDisconnected ==
    /\ \E room \in Rooms \cup {NoRoom}, kind \in ParticipantKinds :
          /\ room_stats' = IF room # NoRoom /\ room \in DOMAIN room_stats /\ kind = "SIP"
                           THEN Del(room_stats, {room})
                           ELSE room_stats
          /\ orch_last' = Request("participant_disconnected", room, TRUE, 200, FALSE, FALSE)
    /\ UNCHANGED <<queue, now>>
    /\ UNCHANGED <<enginevars, agentvars, loadvars>>

\* POST /webhooks/livekit, event room_finished
RoomFinished ==
    /\ \E room \in Rooms \cup {NoRoom} :
          /\ room_stats' = IF room # NoRoom /\ room \in DOMAIN room_stats
                           THEN Del(room_stats, {room})
                           ELSE room_stats
          /\ orch_last' = Request("room_finished", room, TRUE, 200, FALSE, FALSE)
    /\ UNCHANGED <<queue, now>>
    /\ UNCHANGED <<enginevars, agentvars, loadvars>>

\* POST /webhooks/livekit with another event, or with a body that is not JSON
OtherWebhook ==
    /\ \E body \in {"other_event", "invalid_json"} :
          orch_last' = Request(body, NoRoom, body = "other_event", 200, FALSE, FALSE)
    /\ UNCHANGED <<room_stats, queue, now>>
    /\ UNCHANGED <<enginevars, agentvars, loadvars>>

\* POST /manual/dispatch: 200, or 500 "Failed to dispatch agent"
ManualDispatch ==
    /\ Len(queue) < MaxQueue
    /\ \E room \in Rooms, fault \in DispatchFaults :
          LET d == dispatch_agent(room, "manual-test", fault)
          IN  /\ room_stats' = d.room_stats
              /\ queue' = d.queue
              /\ orch_last' = Request("manual_dispatch", room, d.result,
                                      IF d.result THEN 200 ELSE 500, TRUE, d.result)
    /\ UNCHANGED now
    /\ UNCHANGED <<enginevars, agentvars, loadvars>>

\* One round of cleanup_stale_rooms.
CleanupStaleRooms ==
    /\ LET stale_rooms == {room \in DOMAIN room_stats :
                              now - room_stats[room].last_seen > StaleAfter}
       IN  room_stats' = Del(room_stats, stale_rooms)
    /\ orch_last' = Request("cleanup", NoRoom, TRUE, 200, FALSE, FALSE)
    /\ UNCHANGED <<queue, now>>
    /\ UNCHANGED <<enginevars, agentvars, loadvars>>

\* Time passes.
Tick ==
    /\ now < MaxTicks * ClockStep
    /\ now' = now + ClockStep
    /\ UNCHANGED <<room_stats, queue, orch_last>>
    /\ UNCHANGED <<enginevars, agentvars, loadvars>>

\* startup(): no room is tracked; the "rooms" list is empty.
OrchInit ==
    /\ recording = [sid |-> "RE1", call_sid |-> "CA1", date_created |-> 9]
    /\ analyzer = DefaultAnalyzer
    /\ stereo = NoSound
    /\ i = 0
    /\ pairs = <<>>
    /\ examined = 0
    /\ outcome = "start"
    /\ pc = "idle"
    /\ measurements = <<>>
    /\ report = NoReport
    /\ recordings = <<>>
    /\ idx = 0
    /\ all_measurements = <<>>
    /\ returned = NoReport
    /\ attempted = <<>>
    /\ run = 0
    /\ listing_failed = FALSE
    /\ pushed = "none"
    /\ legacy = NoLegacy
    /\ room_stats = <<>>
    /\ queue = <<>>
    /\ now = 0
    /\ orch_last = NoRequest
    /\ tasks = <<>>
    /\ active_pipelines = <<>>
    /\ pipelines = <<>>
    /\ metrics = NoMetrics
    /\ clock_ms = 0
    /\ attempt = <<>>
    /\ retry_delay = <<>>
    /\ call = <<>>
    /\ responses = <<>>
    /\ waits = <<>>

OrchNext ==
    \/ ParticipantJoined
    \/ ParticipantDisconnected
    \/ RoomFinished
    \/ OtherWebhook
    \/ ManualDispatch
    \/ CleanupStaleRooms
    \/ Tick

OrchSpec == OrchInit /\ [][OrchNext]_vars

(***************************************************************************)
(* Claims about the orchestrator                                           *)
(***************************************************************************)
\* C34: the number of tracked rooms, len(room_stats), never exceeds
\* MAX_CONCURRENT_CALLS, whatever webhooks, manual dispatches and cleanup
\* rounds have run.
C34_TrackedRoomsBounded == Cardinality(DOMAIN room_stats) <= MAX_CONCURRENT_CALLS

\* A dispatch was refused with MAX_CONCURRENT_CALLS rooms tracked.
C34_Witness ==
    /\ orch_last.dispatched
    /\ ~orch_last.result
    /\ Cardinality(DOMAIN orch_last.stats_before) = MAX_CONCURRENT_CALLS
    /\ Cardinality(DOMAIN room_stats) = MAX_CONCURRENT_CALLS

\* C35: after a call of dispatch_agent: if it returned True, its job is at the
\* head of the "rooms" list and the room is recorded in room_stats, nothing
\* else changed; if it returned False, room_stats is as before, and the list is
\* as before too when the refusal was for capacity.
C35_DispatchResult ==
    orch_last.dispatched =>
        LET room == orch_last.room
            who == IF orch_last.op = "manual_dispatch" THEN "manual-test" ELSE "sip-caller"
        IN  /\ orch_last.result =>
                  /\ queue = <<Job(room, who, orch_last.at)>> \o orch_last.queue_before
                  /\ room \in DOMAIN room_stats
                  /\ room_stats[room] = Stat(room, who, orch_last.at)
                  /\ DOMAIN room_stats = DOMAIN orch_last.stats_before \cup {room}
                  /\ \A r \in DOMAIN room_stats \ {room} :
                        room_stats[r] = orch_last.stats_before[r]
            /\ ~orch_last.result =>
                  /\ room_stats = orch_last.stats_before
                  /\ AtCapacity(orch_last.stats_before) => queue = orch_last.queue_before

\* Both answers were seen: a refusal for capacity after an accepted dispatch.
C35_Witness ==
    /\ orch_last.dispatched
    /\ ~orch_last.result
    /\ AtCapacity(orch_last.stats_before)
    /\ Len(queue) = MAX_CONCURRENT_CALLS
    /\ orch_last.room \notin DOMAIN room_stats

\* C36: a dispatch for a room that is already tracked in room_stats enqueues
\* no job: for every room at most one job is pushed while the room is tracked.
C36_OneJobPerTrackedRoom ==
    (orch_last.dispatched /\ orch_last.room \in DOMAIN orch_last.stats_before) =>
        queue = orch_last.queue_before

(***************************************************************************)
(* The agent worker (services/agent/app.py)                                *)
(*                                                                         *)
(* run_worker takes jobs from the tail of the "rooms" list and starts one  *)
(* handle_call task per job; the tasks share one event loop and run until  *)
(* their next await.  Task number t creates pipeline number t.             *)
(***************************************************************************)
\* The jobs waiting when the worker starts: at most MaxJobs.
MaxJobs == 2

\* Events delivered to one pipeline: at most MaxEvents.
MaxEvents == 5

\* The worker's clock runs from FirstMs to MaxClockMs.
FirstMs == 1

MaxClockMs == 2

AgentRooms == {RoomName(1), RoomName(2)}

\* The lists of at most n jobs for the rooms of AgentRooms.
JobLists(n) ==
    UNION {[1 .. m -> {Job(room, "sip-caller", 0) : room \in AgentRooms}] : m \in 1 .. n}

\* d.get(key, default)
Get(d, key, default) == IF key \in DOMAIN d THEN d[key] ELSE default

\* No Pipeline object yet; ctx is the empty dict, log the events delivered.
NoPipeline == [state |-> "none", stopped_by |-> {}, removed_by |-> {}, ctx |-> <<>>, log |-> <<>>]

Bump(counter, by) == [metrics EXCEPT ![counter] = @ + by]

\* run_worker: brpop returns a job and a handle_call task is created for it.
TakeJob ==
    /\ queue # <<>>
    /\ LET job == queue[Len(queue)]
       IN  /\ tasks' = Append(tasks, [room |-> job.room, pc |-> "created"])
           /\ pipelines' = Append(pipelines, NoPipeline)
    /\ queue' = SubSeq(queue, 1, Len(queue) - 1)
    /\ UNCHANGED <<active_pipelines, metrics, clock_ms>>
    /\ UNCHANGED <<room_stats, now, orch_last>>
    /\ UNCHANGED <<enginevars, loadvars>>

\* handle_call up to await pipeline.start(): the pipeline is built and stored.
BeginCall ==
    /\ \E t \in DOMAIN tasks :
          /\ tasks[t].pc = "created"
          /\ tasks' = [tasks EXCEPT ![t].pc = "running"]
          /\ pipelines' = [pipelines EXCEPT ![t].state = "running"]
          /\ active_pipelines' = Put(active_pipelines, tasks[t].room, t)
    /\ metrics' = Bump("ACTIVE_CALLS", 1)
    /\ UNCHANGED clock_ms
    /\ UNCHANGED <<orchvars, enginevars, loadvars>>

\* handle_call: building the transport or the pipeline raises.
BeginCallFails ==
    /\ \E t \in DOMAIN tasks :
          /\ tasks[t].pc = "created"
          /\ tasks' = [tasks EXCEPT ![t].pc = "cleanup"]
    /\ metrics' = [metrics EXCEPT !.ACTIVE_CALLS = @ + 1, !.CONNECTION_ERRORS = @ + 1]
    /\ UNCHANGED <<active_pipelines, pipelines, clock_ms>>
    /\ UNCHANGED <<orchvars, enginevars, loadvars>>

\* await asyncio.wait_for(pipeline.start(), timeout=AGENT_TIMEOUT) is over:
\* start() returned, the timeout cancelled it, or it raised.
PipelineEnds ==
    /\ \E t \in DOMAIN tasks, how \in {"returned", "timeout", "error"} :
          /\ tasks[t].pc = "running"
          /\ tasks' = [tasks EXCEPT ![t].pc = "cleanup"]
          /\ pipelines' = [pipelines EXCEPT ![t].state =
                              IF @ = "running" THEN "ended" ELSE @]
          /\ metrics' = IF how = "error" THEN Bump("CONNECTION_ERRORS", 1) ELSE metrics
    /\ UNCHANGED <<active_pipelines, clock_ms>>
    /\ UNCHANGED <<orchvars, enginevars, loadvars>>

\* finally: room in self.active_pipelines, await self.active_pipelines[room].stop()
CleanupStop ==
    /\ \E t \in DOMAIN tasks :
          /\ tasks[t].pc = "cleanup"
          /\ tasks[t].room \in DOMAIN active_pipelines
          /\ LET p == active_pipelines[tasks[t].room]
             IN  pipelines' = [pipelines EXCEPT ![p].state = "stopped",
                                                ![p].stopped_by = @ \cup {t}]
          /\ tasks' = [tasks EXCEPT ![t].pc = "stopping"]
    /\ UNCHANGED <<active_pipelines, metrics, clock_ms>>
    /\ UNCHANGED <<orchvars, enginevars, loadvars>>

\* finally: room not in self.active_pipelines
CleanupSkip ==
    /\ \E t \in DOMAIN tasks :
          /\ tasks[t].pc = "cleanup"
          /\ tasks[t].room \notin DOMAIN active_pipelines
          /\ tasks' = [tasks EXCEPT ![t].pc = "finished"]
    /\ metrics' = Bump("ACTIVE_CALLS", -1)
    /\ UNCHANGED <<active_pipelines, pipelines, clock_ms>>
    /\ UNCHANGED <<orchvars, enginevars, loadvars>>

\* stop() is over: del self.active_pipelines[room]
CleanupDelete ==
    /\ \E t \in DOMAIN tasks :
          /\ tasks[t].pc = "stopping"
          /\ tasks[t].room \in DOMAIN active_pipelines
          /\ LET p == active_pipelines[tasks[t].room]
             IN  pipelines' = [pipelines EXCEPT ![p].removed_by = @ \cup {t}]
          /\ active_pipelines' = Del(active_pipelines, {tasks[t].room})
          /\ tasks' = [tasks EXCEPT ![t].pc = "finished"]
    /\ metrics' = Bump("ACTIVE_CALLS", -1)
    /\ UNCHANGED clock_ms
    /\ UNCHANGED <<orchvars, enginevars, loadvars>>

\* stop() is over and the entry is gone: del raises KeyError out of finally
CleanupDeleteMissing ==
    /\ \E t \in DOMAIN tasks :
          /\ tasks[t].pc = "stopping"
          /\ tasks[t].room \notin DOMAIN active_pipelines
          /\ tasks' = [tasks EXCEPT ![t].pc = "crashed"]
    /\ UNCHANGED <<active_pipelines, pipelines, metrics, clock_ms>>
    /\ UNCHANGED <<orchvars, enginevars, loadvars>>

\* The partial transcripts delivered: empty, blanks only, words.
PartialTexts == {"", "  ", "hi"}

\* text and len(text.strip()) > 0
NonBlank(text) == text \notin {"", "  "}

\* ts_ms is None
NoTs == -1

\* ts_ms or int(time.time() * 1000)
StartOf(ts_ms) == IF ts_ms = NoTs \/ ts_ms = 0 THEN clock_ms ELSE ts_ms

\* Mutant: every partial transcript restarts the turn.
StartsTurnAlways(ctx) == TRUE

\* not pipeline.ctx.get("turn_active")
StartsTurn(ctx) == ~Get(ctx, "turn_active", FALSE)

\* The on_partial handler of pipeline p.
OnPartial ==
    /\ \E p \in DOMAIN pipelines, text \in PartialTexts, ts_ms \in {NoTs, 0, FirstMs} :
          /\ pipelines[p].state = "running"
          /\ Len(pipelines[p].log) < MaxEvents
          /\ NonBlank(text) \/ ts_ms = NoTs
          /\ LET ctx == pipelines[p].ctx
                 started == Put(Put(Put(ctx, "turn_active", TRUE),
                                    "t_start_ms", StartOf(ts_ms)),
                                "processing_start", clock_ms)
                 event == [kind |-> "stt_partial", text |-> text, ts_ms |-> ts_ms,
                           at |-> clock_ms, observed |-> <<>>]
             IN  pipelines' = [pipelines EXCEPT
                                  ![p].ctx = IF NonBlank(text) /\ StartsTurn(ctx)
                                             THEN started ELSE ctx,
                                  ![p].log = Append(@, event)]
    /\ UNCHANGED <<tasks, active_pipelines, metrics, clock_ms>>
    /\ UNCHANGED <<orchvars, enginevars, loadvars>>

\* The on_tts_first_chunk handler of pipeline p.
OnTtsFirstChunk ==
    /\ \E p \in DOMAIN pipelines :
          /\ pipelines[p].state = "running"
          /\ Len(pipelines[p].log) < MaxEvents
          /\ LET ctx == pipelines[p].ctx
                 active == Get(ctx, "turn_active", FALSE)
                 rtt == clock_ms - Get(ctx, "t_start_ms", clock_ms)
                 event == [kind |-> "tts_first_chunk", text |-> "", ts_ms |-> NoTs,
                           at |-> clock_ms,
                           observed |-> IF active THEN <<rtt>> ELSE <<>>]
             IN  /\ pipelines' = [pipelines EXCEPT
                                     ![p].ctx = IF active
                                                THEN Put(ctx, "turn_active", FALSE) ELSE ctx,
                                     ![p].log = Append(@, event)]
                 /\ metrics' =
                       IF active
                       THEN [metrics EXCEPT
                                !.TURN_RTT = Append(@, rtt),
                                !.TURNS = @ + 1,
                                !.PROCESSING_TIME =
                                    IF Get(ctx, "processing_start", 0) # 0
                                    THEN Append(@, clock_ms - ctx["processing_start"])
                                    ELSE @]
                       ELSE metrics
    /\ UNCHANGED <<tasks, active_pipelines, clock_ms>>
    /\ UNCHANGED <<orchvars, enginevars, loadvars>>

\* A millisecond passes.
AgentTick ==
    /\ clock_ms < MaxClockMs
    /\ clock_ms' = clock_ms + 1
    /\ UNCHANGED <<tasks, active_pipelines, pipelines, metrics>>
    /\ UNCHANGED <<orchvars, enginevars, loadvars>>

\* The engine and the load tester do not run; no orchestrator request yet.
OthersIdle ==
    /\ recording = [sid |-> "RE1", call_sid |-> "CA1", date_created |-> 9]
    /\ analyzer = DefaultAnalyzer
    /\ stereo = NoSound
    /\ i = 0
    /\ pairs = <<>>
    /\ examined = 0
    /\ outcome = "start"
    /\ pc = "idle"
    /\ measurements = <<>>
    /\ report = NoReport
    /\ recordings = <<>>
    /\ idx = 0
    /\ all_measurements = <<>>
    /\ returned = NoReport
    /\ attempted = <<>>
    /\ run = 0
    /\ listing_failed = FALSE
    /\ pushed = "none"
    /\ legacy = NoLegacy
    /\ room_stats = <<>>
    /\ now = 0
    /\ orch_last = NoRequest
    /\ attempt = <<>>
    /\ retry_delay = <<>>
    /\ call = <<>>
    /\ responses = <<>>
    /\ waits = <<>>

\* initialize(): no task, no pipeline; jobs wait in the "rooms" list.
AgentInit ==
    /\ OthersIdle
    /\ queue \in JobLists(MaxJobs)
    /\ tasks = <<>>
    /\ active_pipelines = <<>>
    /\ pipelines = <<>>
    /\ metrics = NoMetrics
    /\ clock_ms = FirstMs

AgentNext ==
    \/ TakeJob
    \/ BeginCall
    \/ BeginCallFails
    \/ PipelineEnds
    \/ CleanupStop
    \/ CleanupSkip
    \/ CleanupDelete
    \/ CleanupDeleteMissing

AgentSpec == AgentInit /\ [][AgentNext]_vars

\* One call, and the events of its pipeline.
TurnInit ==
    /\ OthersIdle
    /\ queue = <<Job(RoomName(1), "sip-caller", 0)>>
    /\ tasks = <<>>
    /\ active_pipelines = <<>>
    /\ pipelines = <<>>
    /\ metrics = NoMetrics
    /\ clock_ms = FirstMs

TurnNext ==
    \/ TakeJob
    \/ BeginCall
    \/ OnPartial
    \/ OnTtsFirstChunk
    \/ AgentTick

TurnSpec == TurnInit /\ [][TurnNext]_vars

(***************************************************************************)
(* Claims about the agent worker                                           *)
(***************************************************************************)
\* C37: the cleanup of a handle_call stops and removes only the pipeline that
\* handle_call created: no pipeline is stopped, and none has its
\* active_pipelines entry deleted, by the cleanup of another task.
C37_CleanupOwnPipelineOnly ==
    \A p \in DOMAIN pipelines :
        /\ pipelines[p].stopped_by \subseteq {p}
        /\ pipelines[p].removed_by \subseteq {p}

\* The events of pipeline p's log, by position.
Events(p) == DOMAIN pipelines[p].log

IsPartial(p, k) ==
    /\ pipelines[p].log[k].kind = "stt_partial"
    /\ pipelines[p].log[k].text \notin {"", "  "}

IsObservation(p, k) ==
    /\ pipelines[p].log[k].kind = "tts_first_chunk"
    /\ pipelines[p].log[k].observed # <<>>

\* The position of the last RTT observation before event k, 0 if none.
LastObservationBefore(p, k) ==
    LET earlier == {j \in Events(p) : j < k /\ IsObservation(p, j)}
    IN  IF earlier = {} THEN 0 ELSE CHOOSE j \in earlier : \A h \in earlier : h <= j

\* The non-blank partial transcripts of the turn open at event k: those since
\* the last RTT observation.
PartialsOfTurn(p, k) ==
    {j \in Events(p) : LastObservationBefore(p, k) < j /\ j < k /\ IsPartial(p, j)}

\* C38: in the log of every pipeline, a tts_first_chunk observes an RTT
\* exactly when a non-blank stt_partial has arrived since the last
\* observation (so every turn gives at most one observation), and the RTT
\* observed is the time from the first such partial (its ts_ms, the arrival
\* time if it has none) to the tts_first_chunk.
C38_OneRttPerTurn ==
    \A p \in DOMAIN pipelines : \A k \in Events(p) :
        LET e == pipelines[p].log[k]
            turn == PartialsOfTurn(p, k)
            first == pipelines[p].log[CHOOSE j \in turn : \A h \in turn : j <= h]
            start == IF first.ts_ms \in {NoTs, 0} THEN first.at ELSE first.ts_ms
        IN  e.kind = "tts_first_chunk" =>
                /\ (e.observed # <<>>) <=> (turn # {})
                /\ e.observed # <<>> => e.observed[1] = e.at - start

\* Two turns were observed; in the second a later partial with another start
\* time arrived before the first audio.
C38_Witness ==
    \E p \in DOMAIN pipelines :
        /\ Len(pipelines[p].log) = 5
        /\ IsObservation(p, 2)
        /\ IsPartial(p, 3)
        /\ IsPartial(p, 4)
        /\ IsObservation(p, 5)
        /\ pipelines[p].log[3].ts_ms = FirstMs
        /\ pipelines[p].log[4].ts_ms = NoTs
        /\ pipelines[p].log[4].at > FirstMs
        /\ metrics.TURNS = 2

(***************************************************************************)
(* The load tester (tools/loadtest/load_test.py): simulate_call            *)
(*                                                                         *)
(* The calls of a test run run concurrently; attempt, retry_delay and the  *)
(* position are locals of each call.                                       *)
(***************************************************************************)
\* The simulate_call coroutines of the test run.
MaxCalls == 2

max_retries == 5

\* retry_delay = 2.0
FirstRetryDelay == 2

Calls == 1 .. MaxCalls

\* A response body with the orchestrator's 500 detail, and one without.
DispatchFailedText == "{\"detail\":\"Failed to dispatch agent\"}"

OtherText == "Internal Server Error"

\* "Failed to dispatch agent" in error_text
MentionsDispatchFailure(text) == text = DispatchFailedText

\* What a POST /manual/dispatch can come back with; status 0 stands for an
\* exception raised by the request (TimeoutError, or another).
PostOutcomes ==
    {[status |-> 200, text |-> "{\"ok\":true}"],
     [status |-> 500, text |-> DispatchFailedText],
     [status |-> 500, text |-> OtherText],
     [status |-> 503, text |-> DispatchFailedText],
     [status |-> 0, text |-> "TimeoutError"],
     [status |-> 0, text |-> "ClientConnectorError"]}

\* Mutant: the last attempt is retried like the others.
ShouldRetryAlways(response, n) ==
    response.status = 500 /\ MentionsDispatchFailure(response.text)

\* Mutant: every status 500 is retried.
ShouldRetryAny500(response, n) == response.status = 500 /\ n < max_retries - 1

\* response.status == 500 and "Failed to dispatch agent" in error_text, and
\* attempt < max_retries - 1
ShouldRetry(response, n) ==
    /\ response.status = 500
    /\ MentionsDispatchFailure(response.text)
    /\ n < max_retries - 1

\* simulate_call is entered: attempt 0 of the dispatch loop is about to post.
EnterCall ==
    /\ \E c \in Calls :
          /\ call[c].pc = "idle"
          /\ call' = [call EXCEPT ![c].pc = "post"]
          /\ attempt' = [attempt EXCEPT ![c] = 0]
          /\ retry_delay' = [retry_delay EXCEPT ![c] = FirstRetryDelay]
    /\ UNCHANGED <<responses, waits>>
    /\ UNCHANGED <<orchvars, agentvars, enginevars>>

\* The POST answers 200: break, the call is tracked and its duration slept.
PostAccepted ==
    /\ \E c \in Calls, response \in PostOutcomes :
          /\ call[c].pc = "post"
          /\ response.status = 200
          /\ responses' = [responses EXCEPT ![c] = Append(@, response)]
          /\ call' = [call EXCEPT ![c].pc = "in_call", ![c].active = TRUE]
    /\ UNCHANGED <<attempt, retry_delay, waits>>
    /\ UNCHANGED <<orchvars, agentvars, enginevars>>

\* The POST answers a failure that is retried: sleep, double the delay,
\* continue; the loop ends when range(max_retries) is used up.
PostRetried ==
    /\ \E c \in Calls, response \in PostOutcomes :
          /\ call[c].pc = "post"
          /\ response.status \notin {0, 200}
          /\ ShouldRetry(response, attempt[c])
          /\ responses' = [responses EXCEPT ![c] = Append(@, response)]
          /\ waits' = [waits EXCEPT ![c] = Append(@, retry_delay[c])]
          /\ retry_delay' = [retry_delay EXCEPT ![c] = 2 * @]
          /\ attempt' = [attempt EXCEPT ![c] = @ + 1]
          /\ call' = IF attempt[c] + 1 < max_retries
                     THEN call
                     ELSE [call EXCEPT ![c].pc = "in_call", ![c].active = TRUE]
    /\ UNCHANGED <<orchvars, agentvars, enginevars>>

\* The POST answers a failure that is not retried: the call returns at once.
PostRefused ==
    /\ \E c \in Calls, response \in PostOutcomes :
          /\ call[c].pc = "post"
          /\ response.status \notin {0, 200}
          /\ ~ShouldRetry(response, attempt[c])
          /\ responses' = [responses EXCEPT ![c] = Append(@, response)]
          /\ call' = [call EXCEPT ![c].pc = "returned", ![c].success = FALSE,
                                  ![c].error_message = "Dispatch failed"]
    /\ UNCHANGED <<attempt, retry_delay, waits>>
    /\ UNCHANGED <<orchvars, agentvars, enginevars>>

\* The POST raises: except asyncio.TimeoutError, except Exception.
PostRaises ==
    /\ \E c \in Calls, response \in PostOutcomes :
          /\ call[c].pc = "post"
          /\ response.status = 0
          /\ responses' = [responses EXCEPT ![c] = Append(@, response)]
          /\ call' = [call EXCEPT ![c].pc = "returned", ![c].success = FALSE,
                                  ![c].error_message =
                                      IF response.text = "TimeoutError"
                                      THEN "Timeout" ELSE response.text]
    /\ UNCHANGED <<attempt, retry_delay, waits>>
    /\ UNCHANGED <<orchvars, agentvars, enginevars>>

\* The simulated call duration is over: the call is untracked and succeeds.
CallCompletes ==
    /\ \E c \in Calls :
          /\ call[c].pc = "in_call"
          /\ call' = [call EXCEPT ![c].pc = "returned", ![c].success = TRUE,
                                  ![c].active = FALSE]
    /\ UNCHANGED <<attempt, retry_delay, responses, waits>>
    /\ UNCHANGED <<orchvars, agentvars, enginevars>>

\* The test run has created its calls; none has started.
LoadInit ==
    /\ recording = [sid |-> "RE1", call_sid |-> "CA1", date_created |-> 9]
    /\ analyzer = DefaultAnalyzer
    /\ stereo = NoSound
    /\ i = 0
    /\ pairs = <<>>
    /\ examined = 0
    /\ outcome = "start"
    /\ pc = "idle"
    /\ measurements = <<>>
    /\ report = NoReport
    /\ recordings = <<>>
    /\ idx = 0
    /\ all_measurements = <<>>
    /\ returned = NoReport
    /\ attempted = <<>>
    /\ run = 0
    /\ listing_failed = FALSE
    /\ pushed = "none"
    /\ legacy = NoLegacy
    /\ room_stats = <<>>
    /\ queue = <<>>
    /\ now = 0
    /\ orch_last = NoRequest
    /\ tasks = <<>>
    /\ active_pipelines = <<>>
    /\ pipelines = <<>>
    /\ metrics = NoMetrics
    /\ clock_ms = 0
    /\ attempt = [c \in Calls |-> 0]
    /\ retry_delay = [c \in Calls |-> 0]
    /\ call = [c \in Calls |-> NoCall]
    /\ responses = [c \in Calls |-> <<>>]
    /\ waits = [c \in Calls |-> <<>>]

LoadNext ==
    \/ EnterCall
    \/ PostAccepted
    \/ PostRetried
    \/ PostRefused
    \/ PostRaises
    \/ CallCompletes

LoadSpec == LoadInit /\ [][LoadNext]_vars

(***************************************************************************)
(* Claims about the load tester                                            *)
(***************************************************************************)
\* The response is the status 500 with "Failed to dispatch agent" in its body.
DispatchFailure(r) ==
    r.status = 500 /\ r.text = "{\"detail\":\"Failed to dispatch agent\"}"

\* C39: a call makes at most 5 dispatch attempts; every attempt but the last
\* one made was answered by a status 500 naming "Failed to dispatch agent"
\* and was followed by a wait of 2, 4, 8, 16 seconds in turn; any other answer
\* that is not 200, and a failure of the fifth attempt, ends the call with
\* success = False; a call that succeeded had 200 as its last answer.
C39_DispatchRetries ==
    \A c \in Calls :
        LET n == Len(responses[c])
        IN  /\ n <= 5
            /\ \A k \in 1 .. n - 1 : DispatchFailure(responses[c][k])
            /\ Len(waits[c]) = (IF call[c].pc = "post" THEN n ELSE Max(n - 1, 0))
            /\ \A k \in DOMAIN waits[c] : waits[c][k] = 2 ^ k
            /\ (n > 0 /\ responses[c][n].status # 200
                      /\ (~DispatchFailure(responses[c][n]) \/ n = 5)) =>
                  call[c].pc = "returned" /\ ~call[c].success
            /\ call[c].pc = "in_call" => (n > 0 /\ responses[c][n].status = 200)
            /\ call[c].success => (n > 0 /\ responses[c][n].status = 200)

\* One call used its five attempts and failed after waiting 2, 4, 8 and 16
\* seconds; another succeeded at its second attempt.
C39_Witness ==
    \E c \in Calls, d \in Calls :
        /\ Len(responses[c]) = 5
        /\ waits[c] = <<2, 4, 8, 16>>
        /\ call[c].pc = "returned"
        /\ ~call[c].success
        /\ call[d].success
        /\ Len(responses[d]) = 2

====
